---- MODULE Spec2Model ----
(***************************************************************************)
(* Model of the hook-based virtual-module injection engine                 *)
(* (FileInjectionHooks: GEN_ID, fasterSimpleResolveAbsolutePath, isMatch,  *)
(* resolveId, load).                                                       *)
(*                                                                         *)
(* A JavaScript string is modelled as a sequence of one-character strings, *)
(* so "./a" is <<".", "/", "a">>.  Node's posix path functions and the     *)
(* regular expressions of the source are computed character by character.  *)
(***************************************************************************)
EXTENDS Integers, Sequences, FiniteSets, TLC

VARIABLES
    pc,               \* "call" before the operation ran, "done" after it;
                      \* in the runs of load "idle" and, after a load, "loaded"
    call,             \* the operation and its arguments
    result,           \* what the operation returned
    normalizedHooks,  \* the registry: sequence of [id, hook] in insertion order
    files,            \* the file system: text of each hook's real file
    provided,         \* what each hook's getContent() returns right now
    lastIndex,        \* RELATIVE_IMPORT_REGEX.lastIndex (a /g regex is stateful)
    prev,             \* history of the latest load (see NoPrev)
    num,              \* convertBase: the BigInt num while its loop runs
    generatedIds,     \* the Map generatedIds: sequence of [name, id]
    counter           \* the counter of generateUniqueThemeId

vars ==
    <<pc, call, result, normalizedHooks, files, provided, lastIndex, prev, num,
      generatedIds, counter>>

----------------------------------------------------------------------------
(* Bounds *)

\* longest generated specifier of the path resolution runs
MaxLen == 5

----------------------------------------------------------------------------
(* Strings *)

NL == "\n"
BS == "\\"
DQ == "\""
SQ == "'"

\* the grave accent U+0060, which a TLA+ string cannot hold
GRAVE == "U+0060"

\* \s of a JavaScript regular expression, restricted to the characters used
IsSpace(c) == c \in {" ", NL, "\t", "\r"}

UpperCase == {"A", "B", "C", "D", "E", "F", "G", "H", "I", "J", "K", "L", "M",
              "N", "O", "P", "Q", "R", "S", "T", "U", "V", "W", "X", "Y", "Z"}

LowerOf == [c \in UpperCase |->
    CASE c = "A" -> "a" [] c = "B" -> "b" [] c = "C" -> "c" [] c = "D" -> "d"
      [] c = "E" -> "e" [] c = "F" -> "f" [] c = "G" -> "g" [] c = "H" -> "h"
      [] c = "I" -> "i" [] c = "J" -> "j" [] c = "K" -> "k" [] c = "L" -> "l"
      [] c = "M" -> "m" [] c = "N" -> "n" [] c = "O" -> "o" [] c = "P" -> "p"
      [] c = "Q" -> "q" [] c = "R" -> "r" [] c = "S" -> "s" [] c = "T" -> "t"
      [] c = "U" -> "u" [] c = "V" -> "v" [] c = "W" -> "w" [] c = "X" -> "x"
      [] c = "Y" -> "y" [] c = "Z" -> "z"]

\* one character, case-folded (the i flag, toLowerCase)
Lower(c) == IF c \in UpperCase THEN LowerOf[c] ELSE c

toLowerCase(s) == [i \in 1..Len(s) |-> Lower(s[i])]

Drop(s, n) == SubSeq(s, n + 1, Len(s))

Take(s, n) == SubSeq(s, 1, n)

\* String.prototype.startsWith: case-sensitive
startsWith(s, p) == Len(s) >= Len(p) /\ Take(s, Len(p)) = p

\* a literal of a regular expression with the i flag, matched at position i
MatchesAtI(s, i, p) ==
    /\ i >= 1
    /\ i + Len(p) - 1 <= Len(s)
    /\ \A k \in 1..Len(p) : Lower(s[i + k - 1]) = Lower(p[k])

\* the least element of a non-empty set of indexes
First(S) == CHOOSE i \in S : \A j \in S : i <= j

\* the first position >= i of s that holds no white space (past the end of
\* s if there is none): where a greedy \s* stops
SkipSpace(s, i) ==
    LET stops == {j \in i..Len(s) : ~IsSpace(s[j])}
    IN  IF i > Len(s) THEN i
        ELSE IF stops = {} THEN Len(s) + 1
        ELSE First(stops)

\* .replace(/\\/g, '/')
SlashForward(s) == [i \in 1..Len(s) |-> IF s[i] = BS THEN "/" ELSE s[i]]

RECURSIVE Split(_, _)
Split(s, c) ==
    IF \A i \in 1..Len(s) : s[i] # c
    THEN <<s>>
    ELSE LET i == CHOOSE k \in 1..Len(s) :
                      s[k] = c /\ \A j \in 1..(k - 1) : s[j] # c
         IN  <<Take(s, i - 1)>> \o Split(Drop(s, i), c)

RECURSIVE Join(_, _)
Join(segs, c) ==
    IF segs = <<>> THEN <<>>
    ELSE IF Len(segs) = 1 THEN segs[1]
    ELSE segs[1] \o <<c>> \o Join(Tail(segs), c)

----------------------------------------------------------------------------
(* Node's posix path module, as the source calls it *)

\* process.cwd()
cwd == <<"/", "p", "r", "o", "j">>

DotDot == <<".", ".">>

\* path.isAbsolute
isAbsolute(p) == Len(p) > 0 /\ p[1] = "/"

\* normalizeString of lib/path.js, over the segments of the path
RECURSIVE normalizeString(_, _, _)
normalizeString(segs, res, allowAboveRoot) ==
    IF segs = <<>> THEN res
    ELSE LET g == Head(segs)
             rest == Tail(segs)
         IN  IF g = <<>> \/ g = <<".">>
             THEN normalizeString(rest, res, allowAboveRoot)
             ELSE IF g = DotDot
             THEN IF res # <<>> /\ res[Len(res)] # DotDot
                  THEN normalizeString(rest, Take(res, Len(res) - 1), allowAboveRoot)
                  ELSE IF allowAboveRoot
                       THEN normalizeString(rest, Append(res, DotDot), allowAboveRoot)
                       ELSE normalizeString(rest, res, allowAboveRoot)
             ELSE normalizeString(rest, Append(res, g), allowAboveRoot)

\* path.normalize
normalize(p) ==
    IF Len(p) = 0 THEN <<".">>
    ELSE LET abs == isAbsolute(p)
             trailing == p[Len(p)] = "/"
             body == Join(normalizeString(Split(p, "/"), <<>>, ~abs), "/")
         IN  IF Len(body) = 0
             THEN IF abs THEN <<"/">>
                  ELSE IF trailing THEN <<".", "/">> ELSE <<".">>
             ELSE (IF abs THEN <<"/">> ELSE <<>>) \o body
                  \o (IF trailing THEN <<"/">> ELSE <<>>)

\* one step of path.resolve's loop: the arguments are taken from the right
\* until the accumulated path is absolute; empty arguments are skipped
ResolveStep(path, acc) ==
    IF acc.abs \/ Len(path) = 0 THEN acc
    ELSE [p |-> path \o <<"/">> \o acc.p, abs |-> path[1] = "/"]

\* path.resolve(a, b); the working directory is taken last
resolve(a, b) ==
    LET r == ResolveStep(cwd,
                 ResolveStep(a, ResolveStep(b, [p |-> <<>>, abs |-> FALSE])))
    IN  <<"/">> \o Join(normalizeString(Split(r.p, "/"), <<>>, FALSE), "/")

\* path.dirname
dirname(p) ==
    IF Len(p) = 0 THEN <<".">>
    ELSE LET hasRoot == p[1] = "/"
             \* the slashes at index >= 2 that follow a non-slash character
             \* further right (trailing slashes are skipped)
             ends == {i \in 2..Len(p) :
                         /\ p[i] = "/"
                         /\ \E j \in (i + 1)..Len(p) : p[j] # "/"}
         IN  IF ends = {}
             THEN IF hasRoot THEN <<"/">> ELSE <<".">>
             ELSE LET end == CHOOSE i \in ends : \A j \in ends : j <= i
                  IN  Take(p, end - 1)

\* path.extname
extname(p) ==
    LET nonSlash == {i \in 1..Len(p) : p[i] # "/"}
    IN  IF nonSlash = {} THEN <<>>
        ELSE LET end == CHOOSE i \in nonSlash : \A j \in nonSlash : j <= i
                 slashes == {i \in 1..end : p[i] = "/"}
                 startPart == IF slashes = {} THEN 1
                              ELSE 1 + CHOOSE i \in slashes : \A j \in slashes : j <= i
                 dots == {i \in startPart..end : p[i] = "."}
             IN  IF dots = {} THEN <<>>
                 ELSE LET startDot == CHOOSE i \in dots : \A j \in dots : j <= i
                      IN  IF \/ startDot = startPart
                             \/ (startDot = end /\ startDot = startPart + 1
                                 /\ p[startPart] = ".")
                          THEN <<>>
                          ELSE SubSeq(p, startDot, end)

\* path.relative(from, to) for two resolved paths
RECURSIVE CommonSegs(_, _)
CommonSegs(a, b) ==
    IF a # <<>> /\ b # <<>> /\ Head(a) = Head(b)
    THEN 1 + CommonSegs(Tail(a), Tail(b))
    ELSE 0

relative(from, to) ==
    LET f == normalizeString(Split(resolve(<<>>, from), "/"), <<>>, FALSE)
        t == normalizeString(Split(resolve(<<>>, to), "/"), <<>>, FALSE)
        n == CommonSegs(f, t)
    IN  Join([i \in 1..(Len(f) - n) |-> DotDot] \o Drop(t, n), "/")

----------------------------------------------------------------------------
(* Values: a JavaScript value that is a string, a number, null or undefined *)

Str(s) == [t |-> "string", s |-> s, n |-> 0]

Num(n) == [t |-> "number", s |-> <<>>, n |-> n]

Null == [t |-> "null", s |-> <<>>, n |-> 0]

\* an importer that was not given
Undefined == <<"undefined">>

\* a test that takes the empty string for an importer
Truthy_defined(importer) == importer # Undefined

\* importer && ...: undefined and the empty string are falsy
Truthy(importer) == importer # Undefined /\ Len(importer) > 0

----------------------------------------------------------------------------
(* Constants and regular expressions of the engine *)

\* '@InjectionHooks_ts:'.toLocaleLowerCase()
VIRTUAL_ID_PREFIX ==
    toLowerCase(<<"@", "I", "n", "j", "e", "c", "t", "i", "o", "n", "H", "o",
                  "o", "k", "s", "_", "t", "s", ":">>)

\* /^\s*@InjectionHooks_ts:/i .test(id)
INJECTIONHOOKS_REGEX(id) ==
    MatchesAtI(id, SkipSpace(id, 1), VIRTUAL_ID_PREFIX)

\* /\s*[^:\s@]:(\/\/)?/i .test(s): the pattern is not anchored
SchemeColonAt(s, i) ==
    /\ s[i] \notin {":", "@"}
    /\ ~IsSpace(s[i])
    /\ s[i + 1] = ":"

SCHEME_REGEX(s) == \E i \in 1..(Len(s) - 1) : SchemeColonAt(s, i)

\* REGEX_START_RELATIVE_PATH = /(^|\n)\s*(\.{1,2}(\/|\\)|[^\s\.\/\\])/ .test(s)
StartRelativeAt(s, p) ==
    LET q == SkipSpace(s, p)
    IN  /\ q <= Len(s)
        /\ \/ s[q] \notin {".", "/", BS}
           \/ /\ s[q] = "."
              /\ q + 1 <= Len(s)
              /\ \/ s[q + 1] \in {"/", BS}
                 \/ /\ s[q + 1] = "."
                    /\ q + 2 <= Len(s)
                    /\ s[q + 2] \in {"/", BS}

REGEX_START_RELATIVE_PATH(s) ==
    \/ StartRelativeAt(s, 1)
    \/ \E i \in 1..Len(s) : s[i] = NL /\ StartRelativeAt(s, i + 1)

----------------------------------------------------------------------------
(* Path Resolution Policy *)

fasterSimpleResolveAbsolutePath(source, importer) ==
    LET normalizedSource == SlashForward(normalize(source))
    IN  IF isAbsolute(normalizedSource)
        THEN Str(normalizedSource)
        ELSE IF SCHEME_REGEX(normalizedSource)
        THEN Num(-1)
        ELSE IF /\ startsWith(normalizedSource, <<"@">>)
                /\ ~startsWith(normalizedSource, <<".", "/">>)
                /\ ~startsWith(normalizedSource, <<".", ".", "/">>)
        THEN Num(-2)
        ELSE IF /\ Truthy(importer)
                /\ ~REGEX_START_RELATIVE_PATH(source)
                /\ ~REGEX_START_RELATIVE_PATH(source)
                /\ ~isAbsolute(normalizedSource)
                /\ ~isAbsolute(source)
        THEN Num(-3)
        ELSE IF /\ Truthy(importer)
                /\ \/ REGEX_START_RELATIVE_PATH(source)
                   \/ REGEX_START_RELATIVE_PATH(normalizedSource)
        THEN LET importerDir == dirname(importer)
                 fullPath == resolve(importerDir, normalizedSource)
             IN  Str(SlashForward(normalize(fullPath)))
        ELSE Num(-4)

----------------------------------------------------------------------------
(* Hooks and matchers *)

(* A tester is what isMatch receives: a RegExp, a function, an object (a    *)
(* hook) or anything else.  A RegExp is a set of literal alternatives       *)
(* searched with the i flag, anchored at the end of the path when atEnd;    *)
(* /\/src\/scss\/global\/_?config\.scss$/i is two alternatives, atEnd.      *)
(* A function is the set of paths it accepts.                               *)
RegExpTester(alts, atEnd) ==
    [kind |-> "RegExp", alts |-> alts, atEnd |-> atEnd]

FunctionTester(accepts) == [kind |-> "function", accepts |-> accepts]

NoTester == [kind |-> "undefined"]

\* an IInjectionHook; own tells whether it has an own property isMatch
\* and getContent names its content provider
Hook(filePath, own, tester, getContent) ==
    [kind |-> "object", filePath |-> filePath, own |-> own,
     isMatch |-> tester, getContent |-> getContent]

\* RegExp.prototype.test for the testers above
RegExpTest(tester, path) ==
    \E lit \in tester.alts :
        \E i \in 1..(Len(path) - Len(lit) + 1) :
            /\ MatchesAtI(path, i, lit)
            /\ tester.atEnd => i + Len(lit) - 1 = Len(path)

\* a matcher that follows a single delegation and no further
isMatch_oneLevel(tester, path) ==
    IF tester.kind = "RegExp" THEN RegExpTest(tester, path)
    ELSE IF tester.kind = "function" THEN path \in tester.accepts
    ELSE IF tester.kind = "object" /\ tester.own
    THEN IF tester.isMatch.kind = "RegExp"
         THEN RegExpTest(tester.isMatch, path)
         ELSE IF tester.isMatch.kind = "function"
         THEN path \in tester.isMatch.accepts
         ELSE FALSE
    ELSE FALSE

RECURSIVE isMatch(_, _)
isMatch(tester, path) ==
    IF tester.kind = "RegExp" THEN RegExpTest(tester, path)
    ELSE IF tester.kind = "function" THEN path \in tester.accepts
    ELSE IF tester.kind = "object" /\ tester.own
    THEN isMatch(tester.isMatch, path)
    ELSE FALSE

----------------------------------------------------------------------------
(* Virtual identifiers *)

\* a boolean appended to a string
BooleanText(b) ==
    IF b THEN <<"t", "r", "u", "e">> ELSE <<"f", "a", "l", "s", "e">>

(* withID_OrAbsolute is "true", "1", "false" or "0".  The condition of the  *)
(* conditional expression is the whole concatenation                        *)
(*   (withID_OrAbsolute === true ? prefix : '') + (withID_OrAbsolute === 1) *)
(* and a string is truthy when it is not empty.                             *)
GEN_ID(f, withID_OrAbsolute) ==
    LET absolutePath == resolve(cwd, f)
        relativePath == relative(cwd, absolutePath)
        condition ==
            (IF withID_OrAbsolute = "true" THEN VIRTUAL_ID_PREFIX ELSE <<>>)
                \o BooleanText(withID_OrAbsolute = "1")
    IN  IF Len(condition) > 0
        THEN SlashForward(absolutePath)
        ELSE SlashForward(normalize(relativePath))

----------------------------------------------------------------------------
(* Registry *)

\* an assignment that leaves a key that is already there as it is
SetProperty_keepFirst(obj, id, hook) ==
    IF \E i \in 1..Len(obj) : obj[i].id = id
    THEN obj
    ELSE Append(obj, [id |-> id, hook |-> hook])

\* acumulador[id] = atual: a new key is appended, an existing key keeps its
\* place and gets the new value
SetProperty(obj, id, hook) ==
    IF \E i \in 1..Len(obj) : obj[i].id = id
    THEN [i \in 1..Len(obj) |->
              IF obj[i].id = id THEN [id |-> id, hook |-> hook] ELSE obj[i]]
    ELSE Append(obj, [id |-> id, hook |-> hook])

\* hooks.reduce(..., {}) of FileInjectionHooks for an array of hooks
RECURSIVE Reduce(_, _)
Reduce(hooks, acumulador) ==
    IF hooks = <<>> THEN acumulador
    ELSE Reduce(Tail(hooks),
                SetProperty(acumulador, GEN_ID(Head(hooks).filePath, "true"),
                            Head(hooks)))

FileInjectionHooks(hooks) == Reduce(hooks, <<>>)

\* id in normalizedHooks
HasKey(obj, id) == \E i \in 1..Len(obj) : obj[i].id = id

\* normalizedHooks[id]
Lookup(obj, id) == obj[CHOOSE i \in 1..Len(obj) : obj[i].id = id].hook

----------------------------------------------------------------------------
(* resolveId *)

\* Object.values(normalizedHooks).find(h => normalize(GEN_ID(h.filePath)) ===
\* normalize(importer)): the index of the first such hook, 0 when none
FindByImporter(obj, importer) ==
    LET hits == {i \in 1..Len(obj) :
                    normalize(GEN_ID(obj[i].hook.filePath, "true"))
                        = normalize(importer)}
    IN  IF hits = {} THEN 0 ELSE CHOOSE i \in hits : \A j \in hits : i <= j

effectiveImporter(obj, importer) ==
    IF Truthy(importer) /\ INJECTIONHOOKS_REGEX(importer)
    THEN LET k == FindByImporter(obj, importer)
         IN  IF k # 0 THEN obj[k].hook.filePath ELSE importer
    ELSE importer

\* the same loop without its return: the last hook that matches wins
FirstMatch_last(obj, i, path) ==
    LET hits == {k \in i..Len(obj) : isMatch(obj[k].hook, path)}
    IN  IF hits = {} THEN 0 ELSE CHOOSE k \in hits : \A j \in hits : j <= k

\* for (const id in normalizedHooks): the first hook that matches, from i on
RECURSIVE FirstMatch(_, _, _)
FirstMatch(obj, i, path) ==
    IF i > Len(obj) THEN 0
    ELSE IF isMatch(obj[i].hook, path) THEN i
    ELSE FirstMatch(obj, i + 1, path)

\* the value resolveId returns: null, or the id of the object it returns
resolveId(obj, source, importer) ==
    LET normalizedSource ==
            fasterSimpleResolveAbsolutePath(
                SlashForward(normalize(source)),
                effectiveImporter(obj, importer))
    IN  IF normalizedSource.t # "string" THEN Null
        ELSE LET k == FirstMatch(obj, 1, normalizedSource.s)
             IN  IF k = 0 THEN Null
                 ELSE Str(GEN_ID(obj[k].hook.filePath, "true"))

\* meta.vite.injectedLoader of the object resolveId returns
injectedLoader(normalizedSource) == Drop(extname(normalizedSource), 1)

----------------------------------------------------------------------------
(* load: comment syntax and the injection marker *)

\* getCommentSyntax
getCommentSyntax(filePath) ==
    LET extension == toLowerCase(extname(filePath))
    IN  IF extension \in {<<".", "s", "c", "s", "s">>, <<".", "c", "s", "s">>,
                          <<".", "t", "s">>, <<".", "t", "s", "x">>,
                          <<".", "j", "s">>, <<".", "j", "s", "x">>}
        THEN [start |-> <<"/", "/">>, end |-> <<>>]
        ELSE IF extension \in {<<".", "h", "t", "m", "l">>, <<".", "h", "t", "m">>}
        THEN [start |-> <<"<", "!", "-", "-">>, end |-> <<"-", "-", ">">>]
        ELSE IF extension \in {<<".", "y", "a", "m", "l">>, <<".", "y", "m", "l">>,
                               <<".", "t", "o", "m", "l">>}
        THEN [start |-> <<"#">>, end |-> <<>>]
        ELSE [start |-> <<"/", "*">>, end |-> <<"*", "/">>]

\* the sentinel of INJECTION_BLOCK_REGEX: {generate-global-css-vars.ts
SENTINEL ==
    <<"{", "g", "e", "n", "e", "r", "a", "t", "e", "-", "g", "l", "o", "b",
      "a", "l", "-", "c", "s", "s", "-", "v", "a", "r", "s", ".", "t", "s">>

\* [START INJECTION]: generate-global-css-vars.ts:
START_INJECTION ==
    <<"[", "S", "T", "A", "R", "T", " ", "I", "N", "J", "E", "C", "T", "I",
      "O", "N", "]", ":", " ", "g", "e", "n", "e", "r", "a", "t", "e", "-",
      "g", "l", "o", "b", "a", "l", "-", "c", "s", "s", "-", "v", "a", "r",
      "s", ".", "t", "s", ":">>

\* [END INJECTION]: generate-global-css-vars.ts.
END_INJECTION ==
    <<"[", "E", "N", "D", " ", "I", "N", "J", "E", "C", "T", "I", "O", "N",
      "]", ":", " ", "g", "e", "n", "e", "r", "a", "t", "e", "-", "g", "l",
      "o", "b", "a", "l", "-", "c", "s", "s", "-", "v", "a", "r", "s", ".",
      "t", "s", ".">>

startComment(x) == <<NL>> \o x.start \o START_INJECTION \o x.end \o <<NL>>

endComment(x) == <<NL>> \o x.start \o END_INJECTION \o x.end \o <<NL>>

\* the first line feed at or after i (past the end of s if there is none):
\* where a greedy [^\n]+ stops
LineEnd(s, i) ==
    LET stops == {j \in i..Len(s) : s[j] = NL}
    IN  IF i > Len(s) THEN i
        ELSE IF stops = {} THEN Len(s) + 1
        ELSE First(stops)

(* INJECTION_BLOCK_REGEX with the comment start filled in, flag i:          *)
(*   (\n|^)\s*<cmt>\s*\{generate\-global\-css\-vars\.ts[^\n]+(\n|$)         *)
(* tried at position p.  The record holds the index after the match (0 when *)
(* there is none) and the two groups.                                       *)
InjectionBlockAt(code, p, cmt) ==
    LET g1 == IF p <= Len(code) /\ code[p] = NL THEN <<NL>> ELSE <<>>
        q == SkipSpace(code, p + Len(g1))
        r == SkipSpace(code, q + Len(cmt))
        e == r + Len(SENTINEL)
        eol == LineEnd(code, e)
    IN  IF /\ (p = 1 \/ g1 = <<NL>>)
           /\ MatchesAtI(code, q, cmt)
           /\ MatchesAtI(code, r, SENTINEL)
           /\ eol > e
        THEN [next |-> IF eol <= Len(code) THEN eol + 1 ELSE eol,
              g1 |-> g1,
              g2 |-> IF eol <= Len(code) THEN <<NL>> ELSE <<>>]
        ELSE [next |-> 0, g1 |-> <<>>, g2 |-> <<>>]

\* where the leftmost match of the marker pattern starts, 0 when none
InjectionBlockStart(code, cmt) ==
    LET hits == {p \in 1..Len(code) : InjectionBlockAt(code, p, cmt).next # 0}
    IN  IF hits = {} THEN 0 ELSE First(hits)

----------------------------------------------------------------------------
(* String.prototype.replace with a replacement string: GetSubstitution *)

Digits == <<"0", "1", "2", "3", "4", "5", "6", "7", "8", "9">>

IsDigit(c) == \E d \in 1..10 : Digits[d] = c

DigitValue(c) == (CHOOSE d \in 1..10 : Digits[d] = c) - 1

\* what the $ pattern at the head of repl stands for, and how many
\* characters of repl it takes; caps holds the capture groups of the match
DollarPattern(repl, matched, before, after, caps) ==
    LET c == repl[2]
    IN  IF c = "$" THEN [text |-> <<"$">>, len |-> 2]
        ELSE IF c = "&" THEN [text |-> matched, len |-> 2]
        ELSE IF c = GRAVE THEN [text |-> before, len |-> 2]
        ELSE IF c = SQ THEN [text |-> after, len |-> 2]
        ELSE IF /\ IsDigit(c)
                /\ Len(repl) >= 3
                /\ IsDigit(repl[3])
                /\ 10 * DigitValue(c) + DigitValue(repl[3]) \in 1..Len(caps)
        THEN [text |-> caps[10 * DigitValue(c) + DigitValue(repl[3])],
              len |-> 3]
        ELSE IF IsDigit(c) /\ DigitValue(c) \in 1..Len(caps)
        THEN [text |-> caps[DigitValue(c)], len |-> 2]
        ELSE [text |-> <<"$">>, len |-> 1]

\* the replacement template with its $ patterns expanded, left to right
RECURSIVE GetSubstitution(_, _, _, _, _)
GetSubstitution(repl, matched, before, after, caps) ==
    LET dollars == {k \in 1..(Len(repl) - 1) : repl[k] = "$"}
    IN  IF dollars = {} THEN repl
        ELSE LET k == First(dollars)
                 d == DollarPattern(Drop(repl, k - 1), matched, before, after,
                                    caps)
             IN  Take(repl, k - 1) \o d.text
                 \o GetSubstitution(Drop(repl, k - 1 + d.len), matched, before,
                                    after, caps)

\* a replace that takes the last match of the pattern instead of the first
ReplaceInjectionBlock_last(originalCode, cmt, replacement) ==
    LET hits == {p \in 1..Len(originalCode) :
                    InjectionBlockAt(originalCode, p, cmt).next # 0}
    IN  IF hits = {} THEN originalCode
        ELSE LET p == CHOOSE p \in hits : \A q \in hits : q <= p
                 m == InjectionBlockAt(originalCode, p, cmt)
                 before == Take(originalCode, p - 1)
                 matched == SubSeq(originalCode, p, m.next - 1)
                 after == Drop(originalCode, m.next - 1)
             IN  before
                 \o GetSubstitution(replacement, matched, before, after,
                                    <<m.g1, m.g2>>)
                 \o after

\* originalCode.replace(REGEX, replacement): the first match only
ReplaceInjectionBlock(originalCode, cmt, replacement) ==
    LET p == InjectionBlockStart(originalCode, cmt)
    IN  IF p = 0 THEN originalCode
        ELSE LET m == InjectionBlockAt(originalCode, p, cmt)
                 before == Take(originalCode, p - 1)
                 matched == SubSeq(originalCode, p, m.next - 1)
                 after == Drop(originalCode, m.next - 1)
             IN  before
                 \o GetSubstitution(replacement, matched, before, after,
                                    <<m.g1, m.g2>>)
                 \o after

----------------------------------------------------------------------------
(* load: rewriting of relative @use / @import statements *)

AT_USE == <<"@", "u", "s", "e">>

AT_IMPORT == <<"@", "i", "m", "p", "o", "r", "t">>

\* the first index >= i of s that holds quote, when no line terminator comes
\* before it; 0 otherwise (the lazy .*? followed by \1)
ClosingQuote(s, i, quote) ==
    LET stops == {j \in i..Len(s) : s[j] \in {quote, NL, "\r"}}
    IN  IF stops = {} THEN 0
        ELSE IF s[First(stops)] = quote THEN First(stops)
        ELSE 0

(* RELATIVE_IMPORT_REGEX = /(?:@use|@import)\s+("|')(\.\.?\/.*?)\1/gi tried *)
(* at position i: the index of the closing quote (0 when there is no match),*)
(* group 1 (the quote) and group 2 (the relative path).                     *)
RelativeImportAt(s, i) ==
    LET kw == IF MatchesAtI(s, i, AT_USE) THEN Len(AT_USE)
              ELSE IF MatchesAtI(s, i, AT_IMPORT) THEN Len(AT_IMPORT)
              ELSE 0
        q == SkipSpace(s, i + kw)
        slash == IF q + 2 <= Len(s) /\ s[q + 1] = "." /\ s[q + 2] = "/"
                 THEN q + 2
                 ELSE IF /\ q + 3 <= Len(s)
                         /\ s[q + 1] = "."
                         /\ s[q + 2] = "."
                         /\ s[q + 3] = "/"
                 THEN q + 3
                 ELSE 0
        close == IF slash = 0 THEN 0 ELSE ClosingQuote(s, slash + 1, s[q])
    IN  IF /\ kw > 0
           /\ q > i + kw
           /\ q <= Len(s)
           /\ s[q] \in {DQ, SQ}
           /\ close # 0
        THEN [last |-> close, quote |-> s[q],
              relativePath |-> SubSeq(s, q + 1, close - 1)]
        ELSE [last |-> 0, quote |-> "", relativePath |-> <<>>]

\* the replacer function of load
Replacer(match, quote, relativePath, filePath) ==
    LET absolutePath == fasterSimpleResolveAbsolutePath(relativePath, filePath)
    IN  IF absolutePath.t = "string"
        THEN (IF startsWith(match, AT_USE) THEN AT_USE ELSE AT_IMPORT)
                 \o <<" ", SQ>> \o GEN_ID(absolutePath.s, "1") \o <<SQ>>
        ELSE match

\* .replace(RELATIVE_IMPORT_REGEX, replacer) from index i on: every match,
\* left to right, none overlapping
RECURSIVE ReplaceRelativeImports(_, _, _)
ReplaceRelativeImports(s, i, filePath) ==
    LET hits == {p \in i..Len(s) :
                    s[p] = "@" /\ RelativeImportAt(s, p).last # 0}
    IN  IF hits = {} THEN Drop(s, i - 1)
        ELSE LET p == First(hits)
                 m == RelativeImportAt(s, p)
             IN  SubSeq(s, i, p - 1)
                 \o Replacer(SubSeq(s, p, m.last), m.quote, m.relativePath,
                             filePath)
                 \o ReplaceRelativeImports(s, m.last + 1, filePath)

----------------------------------------------------------------------------
(* load *)

\* fs.readFileSync(filePath, 'utf-8'): relative paths are read from the
\* working directory
readFileSync(filePath) == files[resolve(cwd, filePath)]

\* a provider whose first output is kept and handed out again
getContent_memo(hook) ==
    IF prev.result.t = "string" THEN prev.content
    ELSE provided[hook.getContent]

\* hook.getContent(): the provider is called, nothing is kept
getContent(hook) == provided[hook.getContent]

\* the text load builds for a hook from the text of its file and the string
\* its provider returned
injectedCode(hook, originalCode, content) ==
    LET x == getCommentSyntax(hook.filePath)
        replacement ==
            <<NL>> \o startComment(x) \o <<NL>> \o content \o <<NL>>
                \o endComment(x) \o <<NL>>
    IN  ReplaceRelativeImports(
            ReplaceInjectionBlock(originalCode, x.start, replacement),
            1, hook.filePath)

\* the value load returns
load(id) ==
    IF ~INJECTIONHOOKS_REGEX(id) THEN Null
    ELSE IF HasKey(normalizedHooks, id)
    THEN LET hook == Lookup(normalizedHooks, id)
         IN  Str(injectedCode(hook, readFileSync(hook.filePath),
                              getContent(hook)))
    ELSE Null

----------------------------------------------------------------------------
(* Runs of the Path Resolution Policy: one call per behaviour *)

\* the characters of the generated specifiers
Alphabet == {".", "/", "a", ":", "@", BS}

\* the specifiers the spec and the source name
NamedSpecifiers ==
    { <<"l", "o", "d", "a", "s", "h">>,
      <<"h", "t", "t", "p", "s", ":", "/", "/", "x", "/", "y">>,
      <<"h", "t", "t", "p", "s", ":", "/", "/", "x", "/", ".", ".", "/", ".", ".">>,
      <<"f", "t", "p", ":", "x">>,
      <<".", "/", "s", "i", "b", "l", "i", "n", "g", ".", "s", "c", "s", "s">>,
      <<".", ".", "/", "u", "p", ".", "s", "c", "s", "s">>,
      <<".", "/", "@", "s", "c", "o", "p", "e", "/", "x">>,
      <<"@", "/", "a", "l", "i", "a", "s">>,
      <<".", "h", "i", "d", "d", "e", "n">>,
      <<" ", ".", "/", "s", "p">> }

\* every string over Alphabet of at most MaxLen characters, and the named ones
Specifiers ==
    UNION {[1..n -> Alphabet] : n \in 0..MaxLen} \cup NamedSpecifiers

\* no importer, the empty importer, an absolute one and one relative to cwd
Importers ==
    { Undefined,
      <<>>,
      <<"/", "p", "r", "o", "j", "/", "s", "r", "c", "/", "a", ".", "s", "c", "s", "s">>,
      <<"s", "r", "c", "/", "b", ".", "s", "c", "s", "s">> }

NoFiles == [p \in {} |-> <<>>]

(* prev is a history variable: the identifier, the provider output and the   *)
(* result of the latest load, whether a file or a provider changed since     *)
(* (stale), whether that load repeated the load before it over an unchanged  *)
(* snapshot (repeated) and whether the two results were equal (agrees)       *)
NoPrev ==
    [id |-> <<>>, content |-> <<>>, result |-> Null, stale |-> TRUE,
     repeated |-> FALSE, agrees |-> TRUE]

InitPolicy ==
    /\ pc = "call"
    /\ \E source \in Specifiers, importer \in Importers :
           call = [op |-> "fasterSimpleResolveAbsolutePath",
                   source |-> source, importer |-> importer]
    /\ result = Null
    /\ normalizedHooks = <<>>
    /\ files = NoFiles
    /\ provided = NoFiles
    /\ lastIndex = 0
    /\ prev = NoPrev
    /\ num = 0
    /\ generatedIds = <<>>
    /\ counter = 0

\* the call of fasterSimpleResolveAbsolutePath(source, importer)
PolicyCall ==
    /\ pc = "call"
    /\ call.op = "fasterSimpleResolveAbsolutePath"
    /\ result' = fasterSimpleResolveAbsolutePath(call.source, call.importer)
    /\ pc' = "done"
    /\ UNCHANGED <<call, normalizedHooks, files, provided, lastIndex, prev>>
    /\ UNCHANGED <<num, generatedIds, counter>>

SpecPolicy == InitPolicy /\ [][PolicyCall]_vars

PolicyDone == pc = "done" /\ call.op = "fasterSimpleResolveAbsolutePath"

----------------------------------------------------------------------------
(* Claims about the Path Resolution Policy *)

Letters == UpperCase \cup {LowerOf[c] : c \in UpperCase}

\* a bare package name: not absolute, no scheme, and its first character is
\* none of @ . / nor a backslash or white space
BarePackageName(s) ==
    /\ Len(s) > 0
    /\ s[1] \notin {"@", ".", "/", BS}
    /\ ~IsSpace(s[1])
    /\ \A i \in 1..Len(s) : s[i] # ":"

\* C3: a bare package name given together with an importer yields the
\* "external package" outcome -3 and never a resolved path.
C3_BarePackageIsExternal ==
    (PolicyDone /\ BarePackageName(call.source) /\ Truthy(call.importer))
        => result = Num(-3)

RelativeSpecifier(s) ==
    startsWith(s, <<".", "/">>) \/ startsWith(s, <<".", ".", "/">>)

\* C4: a specifier that begins with ./ or ../ and a present importer give a
\* path: the specifier resolved against the importer's directory, with
\* forward slashes.
C4_RelativeResolvesAgainstImporter ==
    (PolicyDone /\ RelativeSpecifier(call.source) /\ Truthy(call.importer))
        => result = Str(SlashForward(resolve(dirname(call.importer),
                                             call.source)))

\* scheme: or scheme:// at the start of s, the scheme being letters
SchemeForm(s) ==
    \E n \in 1..(Len(s) - 1) :
        /\ \A i \in 1..n : s[i] \in Letters
        /\ s[n + 1] = ":"

\* two calls that differ only in the importer never give "foreign scheme"
\* for one and something else for the other
ForeignSchemeWhateverImporter ==
    (PolicyDone /\ result = Num(-1))
        => \A importer \in Importers :
               fasterSimpleResolveAbsolutePath(call.source, importer) = Num(-1)

\* C5: every specifier of the form scheme: or scheme:// yields
\* "foreign scheme" (-1) with any importer and with none, and the outcome -1
\* never depends on the importer.
C5_EverySchemeIsForeign ==
    /\ (PolicyDone /\ SchemeForm(call.source)) => result = Num(-1)
    /\ ForeignSchemeWhateverImporter

----------------------------------------------------------------------------
(* Hooks of the runs *)

\* src/scss/global/_variables.scss
MAIN_VARS_FILE_PATH ==
    <<"s", "r", "c", "/", "s", "c", "s", "s", "/", "g", "l", "o", "b",
      "a", "l", "/", "_", "v", "a", "r", "i", "a", "b", "l", "e", "s",
      ".", "s", "c", "s", "s">>

\* ./src/scss/global/_config.scss
CONFIG_FILE_PATH ==
    <<".", "/", "s", "r", "c", "/", "s", "c", "s", "s", "/", "g", "l",
      "o", "b", "a", "l", "/", "_", "c", "o", "n", "f", "i", "g", ".",
      "s", "c", "s", "s">>

\* variables_scss(): isMatch is new RegExp(_EscapeRegExp(path), 'i')
variables_scss ==
    Hook(MAIN_VARS_FILE_PATH, TRUE,
         RegExpTester({MAIN_VARS_FILE_PATH}, FALSE), "variables")

\* config_scss(): isMatch is /\/src\/scss\/global\/_?config\.scss$/i
config_scss ==
    Hook(CONFIG_FILE_PATH, TRUE,
         RegExpTester({<<"/", "s", "r", "c", "/", "s", "c", "s", "s", "/",
                         "g", "l", "o", "b", "a", "l", "/", "_", "c", "o",
                         "n", "f", "i", "g", ".", "s", "c", "s", "s">>,
                       <<"/", "s", "r", "c", "/", "s", "c", "s", "s", "/",
                         "g", "l", "o", "b", "a", "l", "/", "c", "o", "n",
                         "f", "i", "g", ".", "s", "c", "s", "s">>}, TRUE),
         "config")

\* a hook of an HTML page whose isMatch is a function
page_html ==
    Hook(<<"/", "p", "r", "o", "j", "/", "i", "n", "d", "e", "x", ".",
           "h", "t", "m", "l">>, TRUE,
         FunctionTester({<<"/", "p", "r", "o", "j", "/", "i", "n", "d",
                           "e", "x", ".", "h", "t", "m", "l">>}), "page")

\* a hook with no isMatch
bare_scss == Hook(<<"s", "r", "c", "/", "b", ".", "s", "c", "s", "s">>, FALSE, NoTester, "bare")

\* a hook whose isMatch is itself a hook
delegating_scss ==
    Hook(<<"s", "r", "c", "/", "s", "c", "s", "s", "/", "d", ".", "s",
           "c", "s", "s">>, TRUE, variables_scss, "delegating")

\* a hook whose isMatch accepts every .scss path
all_scss ==
    Hook(<<"s", "r", "c", "/", "a", "l", "l", ".", "s", "c", "s", "s">>, TRUE, RegExpTester({<<".", "s", "c", "s", "s">>}, TRUE), "all")

\* a second hook for the file of variables_scss
variables_again ==
    Hook(<<".", "/", "s", "r", "c", "/", "s", "c", "s", "s", "/", "g",
           "l", "o", "b", "a", "l", "/", "_", "v", "a", "r", "i", "a",
           "b", "l", "e", "s", ".", "s", "c", "s", "s">>, TRUE,
         RegExpTester({<<"_", "v", "a", "r", "i", "a", "b", "l", "e", "s",
                         ".", "s", "c", "s", "s">>}, TRUE), "again")

\* a hook whose isMatch is a hook whose isMatch is a hook
deep_scss ==
    Hook(<<"s", "r", "c", "/", "s", "c", "s", "s", "/", "d", "e", "e",
           "p", ".", "s", "c", "s", "s">>, TRUE, delegating_scss, "deep")

\* a hook whose isMatch is a hook with no isMatch
hollow_scss ==
    Hook(<<"s", "r", "c", "/", "s", "c", "s", "s", "/", "h", ".", "s",
           "c", "s", "s">>, TRUE, bare_scss, "hollow")

\* the arrays of hooks FileInjectionHooks is given
HookArrays ==
    { <<variables_scss, config_scss>>,
      <<config_scss, variables_scss>>,
      <<config_scss, all_scss, variables_scss>>,
      <<variables_scss, all_scss, variables_again>>,
      <<bare_scss, page_html, delegating_scss>>,
      <<hollow_scss, bare_scss, deep_scss>> }

\* a Record given instead of an array is used as it is: here the caller
\* chose keys that carry the virtual prefix
RecordOf(hooks) ==
    [i \in 1..Len(hooks) |->
        [id |-> VIRTUAL_ID_PREFIX \o resolve(cwd, hooks[i].filePath),
         hook |-> hooks[i]]]

Registries ==
    {FileInjectionHooks(hooks) : hooks \in HookArrays}
        \cup {RecordOf(<<variables_scss, page_html>>)}

\* the absolute paths of the files of a registry
FilesOf(obj) == {resolve(cwd, obj[i].hook.filePath) : i \in 1..Len(obj)}

ProvidersOf(obj) == {obj[i].hook.getContent : i \in 1..Len(obj)}

----------------------------------------------------------------------------
(* Runs of the engine's resolveId and of GEN_ID: one request per behaviour, *)
(* and the load of the identifier resolveId returned                        *)

\* the text of every file and the output of every provider in these runs
DefaultCode ==
    <<"a", NL, "/", "/", " ", "{", "g", "e", "n", "e", "r", "a", "t", "e",
      "-", "g", "l", "o", "b", "a", "l", "-", "c", "s", "s", "-", "v",
      "a", "r", "s", ".", "t", "s", ":", " ", "v", "a", "r", "i", "a",
      "b", "l", "e", "s", "}", NL, "b">>

DefaultContent == <<"$", "x", ":", " ", "1", ";">>

Sources ==
    { <<".", "/", "_", "v", "a", "r", "i", "a", "b", "l", "e", "s", ".",
        "s", "c", "s", "s">>,
      <<".", ".", "/", "g", "l", "o", "b", "a", "l", "/", "_", "V", "A",
        "R", "I", "A", "B", "L", "E", "S", ".", "s", "c", "s", "s">>,
      <<".", "/", "_", "c", "o", "n", "f", "i", "g", ".", "s", "c", "s",
        "s">>,
      <<".", "/", "c", "o", "n", "f", "i", "g", ".", "s", "c", "s", "s">>,
      <<".", "/", "d", ".", "s", "c", "s", "s">>,
      <<".", "/", "b", ".", "c", "s", "s">>,
      <<"/", "p", "r", "o", "j", "/", "i", "n", "d", "e", "x", ".", "h",
        "t", "m", "l">>,
      <<"/", "p", "r", "o", "j", "/", "s", "r", "c", "/", "s", "c", "s",
        "s", "/", "g", "l", "o", "b", "a", "l", "/", "_", "v", "a", "r",
        "i", "a", "b", "l", "e", "s", ".", "s", "c", "s", "s">>,
      <<"/", "p", "r", "o", "j", "/", "s", "r", "c", "/", "b", ".", "s", "c",
        "s", "s">>,
      <<"l", "o", "d", "a", "s", "h">>,
      <<"@", "/", "a", "l", "i", "a", "s">>,
      <<"h", "t", "t", "p", "s", ":", "/", "/", "x", "/", "y">> }

\* no importer, an absolute and a relative real file, a virtual identifier
\* and the identifier resolveId returns for variables_scss
ResolveImporters ==
    { Undefined,
      <<"/", "p", "r", "o", "j", "/", "s", "r", "c", "/", "s", "c", "s",
        "s", "/", "g", "l", "o", "b", "a", "l", "/", "m", "a", "i", "n",
        ".", "s", "c", "s", "s">>,
      <<"s", "r", "c", "/", "s", "c", "s", "s", "/", "g", "l", "o", "b",
        "a", "l", "/", "m", "a", "i", "n", ".", "s", "c", "s", "s">>,
      VIRTUAL_ID_PREFIX \o resolve(cwd, MAIN_VARS_FILE_PATH),
      resolve(cwd, MAIN_VARS_FILE_PATH) }

GenIdPaths ==
    { MAIN_VARS_FILE_PATH, CONFIG_FILE_PATH,
      <<"/", "p", "r", "o", "j", "/", "i", "n", "d", "e", "x", ".", "h",
        "t", "m", "l">>,
      <<"/", "e", "t", "c", "/", "x", ".", "c", "s", "s">>,
      <<".", ".", "/", "u", "p", ".", "s", "c", "s", "s">>,
      <<"s", "r", "c", "\\", "w", ".", "s", "c", "s", "s">>,
      <<"/", "p", "r", "o", "j", "/", "s", "r", "c", "/", ".", ".", "/",
        "a", ".", "s", "c", "s", "s">>,
      <<".">>, <<>> }

\* withID_OrAbsolute: true (the default), 1, false, 0
Flags == {"true", "1", "false", "0"}

InitResolve ==
    /\ pc = "call"
    /\ \/ /\ normalizedHooks \in Registries
          /\ \E source \in Sources, importer \in ResolveImporters :
                 call = [op |-> "resolveId", source |-> source,
                         importer |-> importer]
       \/ /\ normalizedHooks = <<>>
          /\ \E f \in GenIdPaths, flag \in Flags :
                 call = [op |-> "GEN_ID", f |-> f, withID_OrAbsolute |-> flag]
    /\ result = Null
    /\ files = [p \in FilesOf(normalizedHooks) |-> DefaultCode]
    /\ provided = [g \in ProvidersOf(normalizedHooks) |-> DefaultContent]
    /\ lastIndex = 0
    /\ prev = NoPrev
    /\ num = 0
    /\ generatedIds = <<>>
    /\ counter = 0

\* the host calls resolveId(source, importer)
ResolveIdCall ==
    /\ pc = "call"
    /\ call.op = "resolveId"
    /\ result' = resolveId(normalizedHooks, call.source, call.importer)
    /\ pc' = "done"
    /\ UNCHANGED <<call, normalizedHooks, files, provided, lastIndex, prev>>
    /\ UNCHANGED <<num, generatedIds, counter>>

\* GEN_ID(f, withID_OrAbsolute)
GenIdCall ==
    /\ pc = "call"
    /\ call.op = "GEN_ID"
    /\ result' = Str(GEN_ID(call.f, call.withID_OrAbsolute))
    /\ pc' = "done"
    /\ UNCHANGED <<call, normalizedHooks, files, provided, lastIndex, prev>>
    /\ UNCHANGED <<num, generatedIds, counter>>

\* the host loads the identifier resolveId has just returned
LoadResolved ==
    /\ pc = "done"
    /\ call.op = "resolveId"
    /\ result # Null
    /\ call' = [op |-> "load", id |-> result.s]
    /\ result' = load(result.s)
    /\ pc' = "loaded"
    /\ lastIndex' = 0
    /\ UNCHANGED <<normalizedHooks, files, provided, prev>>
    /\ UNCHANGED <<num, generatedIds, counter>>

NextResolve == ResolveIdCall \/ GenIdCall \/ LoadResolved

SpecResolve == InitResolve /\ [][NextResolve]_vars

ResolveDone == pc = "done" /\ call.op = "resolveId"

GenIdDone == pc = "done" /\ call.op = "GEN_ID"

----------------------------------------------------------------------------
(* Claims about resolveId and GEN_ID *)

\* the registry was built from an array of hooks
BuiltFromArray ==
    \E hooks \in HookArrays : normalizedHooks = FileInjectionHooks(hooks)

\* C1: every identifier resolveId returns is one load handles: it passes
\* load's virtual-prefix test and is a key of the registry, and the load of
\* it right after the resolve returns text, never null.
C1_ResolvedIdIsLoadable ==
    BuiltFromArray
        => /\ (ResolveDone /\ result # Null)
                  => /\ INJECTIONHOOKS_REGEX(result.s)
                     /\ HasKey(normalizedHooks, result.s)
           /\ (pc = "loaded") => result.t = "string"

\* the matching hooks of the registry for what the policy resolved
Resolved ==
    fasterSimpleResolveAbsolutePath(
        SlashForward(normalize(call.source)),
        effectiveImporter(normalizedHooks, call.importer))

Matching ==
    {i \in 1..Len(normalizedHooks) :
        isMatch(normalizedHooks[i].hook, Resolved.s)}

\* C2: in prefixed-absolute mode (flag true) GEN_ID(path) is the virtual
\* prefix followed by the forward-slash path resolved against the working
\* directory, in unprefixed-relative mode it is the path relative to the
\* working directory with no prefix, and on a match resolveId returns the
\* prefixed-absolute identifier of the matched hook's filePath.
C2_AddressingModes ==
    /\ (GenIdDone /\ call.withID_OrAbsolute = "true")
           => result = Str(VIRTUAL_ID_PREFIX
                               \o SlashForward(resolve(cwd, call.f)))
    /\ (GenIdDone /\ call.withID_OrAbsolute = "false")
           => result = Str(SlashForward(normalize(
                               relative(cwd, resolve(cwd, call.f)))))
    /\ (ResolveDone /\ result # Null)
           => \E i \in Matching :
                  result = Str(VIRTUAL_ID_PREFIX
                                   \o SlashForward(resolve(cwd,
                                          normalizedHooks[i].hook.filePath)))

\* C6: resolveId returns a value for every request: null when the policy
\* gives a negative outcome or no hook matches, otherwise the identifier of
\* the first hook, in the order of the registry, whose matcher accepts the
\* resolved path.
C6_FirstMatchOrNull ==
    ResolveDone
        => result =
               IF Resolved.t # "string" \/ Matching = {} THEN Null
               ELSE Str(GEN_ID(normalizedHooks[First(Matching)].hook.filePath,
                               "true"))

\* a request that two hooks of the registry match was answered
C6_Witness ==
    /\ ResolveDone
    /\ result # Null
    /\ Cardinality(Matching) >= 2
    /\ First(Matching) > 1

----------------------------------------------------------------------------
(* Runs of load: the host loads identifiers, again and again, while files   *)
(* are rewritten on disk and the output of the providers changes            *)

\* the texts a file can hold: a marker line mid-file; two marker lines;
\* relative and other
\* statements and a marker line; statements only; a marker line of HTML
Texts ==
    { DefaultCode,
      <<"/", "/", " ", "{", "g", "e", "n", "e", "r", "a", "t", "e", "-",
        "g", "l", "o", "b", "a", "l", "-", "c", "s", "s", "-", "v", "a",
        "r", "s", ".", "t", "s", ":", " ", "a", "}", NL, "x", NL, "/",
        "/", " ", "{", "g", "e", "n", "e", "r", "a", "t", "e", "-", "g",
        "l", "o", "b", "a", "l", "-", "c", "s", "s", "-", "v", "a", "r",
        "s", ".", "t", "s", ":", " ", "b", "}", NL, "y">>,
      <<"@", "u", "s", "e", " ", SQ, ".", "/", "s", "k", "i", "n", "s",
        "/", "d", "a", "r", "k", SQ, ";", NL, "@", "u", "s", "e", " ", SQ,
        "o", "t", "h", "e", "r", "/", "n", "o", "n", "-", "m", "a", "t",
        "c", "h", "i", "n", "g", SQ, ";", NL, "/", "/", " ", "{", "g",
        "e", "n", "e", "r", "a", "t", "e", "-", "g", "l", "o", "b", "a",
        "l", "-", "c", "s", "s", "-", "v", "a", "r", "s", ".", "t", "s",
        ":", " ", "v", "}", NL>>,
      <<"@", "U", "S", "E", " ", SQ, ".", "/", "u", SQ, ";", NL, "@", "i",
        "m", "p", "o", "r", "t", " ", "\"", ".", ".", "/", "x", "\"", ";",
        NL, "@", "u", "s", "e", " ", SQ, ".", "/", "@", "s", SQ, ";">>,
      <<"<", "p", ">", NL, "<", "!", "-", "-", " ", "{", "g", "e", "n",
        "e", "r", "a", "t", "e", "-", "g", "l", "o", "b", "a", "l", "-",
        "c", "s", "s", "-", "v", "a", "r", "s", ".", "t", "s", ":", " ",
        "x", "}", " ", "-", "-", ">", NL, "<", "/", "p", ">">> }

\* the strings a provider can return
Contents ==
    { DefaultContent,
      <<"$", "$">>,
      <<"$", "&">>,
      <<"@", "u", "s", "e", " ", SQ, ".", "/", "s", "k", "i", "n", "s",
        "/", "d", "a", "r", "k", SQ, " ", "a", "s", " ", "D", ";">>,
      <<>> }

\* two registries given as Records and one built from an array
LoadRegistries ==
    { RecordOf(<<variables_scss>>),
      RecordOf(<<page_html>>),
      FileInjectionHooks(<<config_scss>>) }

\* the identifiers the host loads: the keys and one that is not registered
LoadIds(obj) ==
    {obj[i].id : i \in 1..Len(obj)}
        \cup {VIRTUAL_ID_PREFIX \o <<"/", "p", "r", "o", "j", "/", "n",
                                     "o", "n", "e", ".", "s", "c", "s",
                                     "s">>}

InitLoad ==
    /\ pc = "idle"
    /\ call = [op |-> "none"]
    /\ result = Null
    /\ normalizedHooks \in LoadRegistries
    /\ files \in [FilesOf(normalizedHooks) -> Texts]
    /\ provided \in [ProvidersOf(normalizedHooks) -> Contents]
    /\ lastIndex = 0
    /\ prev = NoPrev
    /\ num = 0
    /\ generatedIds = <<>>
    /\ counter = 0

\* the host calls load(id); String.prototype.replace leaves the lastIndex of
\* the global RELATIVE_IMPORT_REGEX at 0
Load ==
    \E id \in LoadIds(normalizedHooks) :
        /\ call' = [op |-> "load", id |-> id]
        /\ result' = load(id)
        /\ pc' = "loaded"
        /\ lastIndex' = 0
        /\ prev' = [id |-> id,
                    content |-> IF result'.t = "string"
                                THEN getContent(Lookup(normalizedHooks, id))
                                ELSE <<>>,
                    result |-> result',
                    stale |-> FALSE,
                    repeated |-> prev.id = id /\ ~prev.stale,
                    agrees |-> prev.result = result']
        /\ UNCHANGED <<normalizedHooks, files, provided>>
        /\ UNCHANGED <<num, generatedIds, counter>>

\* the file of a hook is rewritten on disk between two loads
WriteFile ==
    \E p \in DOMAIN files, text \in Texts :
        /\ text # files[p]
        /\ files' = [files EXCEPT ![p] = text]
        /\ call' = [op |-> "writeFile"]
        /\ result' = Null
        /\ pc' = "idle"
        /\ prev' = [prev EXCEPT !.stale = TRUE]
        /\ UNCHANGED <<normalizedHooks, provided, lastIndex>>
        /\ UNCHANGED <<num, generatedIds, counter>>

\* what a provider computes changes between two loads
Provide ==
    \E g \in DOMAIN provided, content \in Contents :
        /\ content # provided[g]
        /\ provided' = [provided EXCEPT ![g] = content]
        /\ call' = [op |-> "provide"]
        /\ result' = Null
        /\ pc' = "idle"
        /\ prev' = [prev EXCEPT !.stale = TRUE]
        /\ UNCHANGED <<normalizedHooks, files, lastIndex>>
        /\ UNCHANGED <<num, generatedIds, counter>>

NextLoad == Load \/ WriteFile \/ Provide

SpecLoad == InitLoad /\ [][NextLoad]_vars

LoadDone == pc = "loaded"

\* the load that has just returned was of a registered identifier
Handled == LoadDone /\ result.t = "string"

----------------------------------------------------------------------------
(* Claims about load *)

\* sub occurs in s
Contains(s, sub) ==
    \E i \in 1..(Len(s) - Len(sub) + 1) : SubSeq(s, i, i + Len(sub) - 1) = sub

\* the hook of the identifier just loaded, the text of its file, what its
\* provider returns and its comment syntax
TheHook == Lookup(normalizedHooks, call.id)

OriginalCode == files[resolve(cwd, TheHook.filePath)]

Content == provided[TheHook.getContent]

CommentSyntax == getCommentSyntax(TheHook.filePath)

HasMarkerLine == InjectionBlockStart(OriginalCode, CommentSyntax.start) # 0

\* the text of the file after the splice, before the imports are rewritten
Spliced ==
    ReplaceInjectionBlock(
        OriginalCode, CommentSyntax.start,
        <<NL>> \o startComment(CommentSyntax) \o <<NL>> \o Content \o <<NL>>
            \o endComment(CommentSyntax) \o <<NL>>)

\* C7: when the text of a registered file holds a marker line, the text load
\* returns holds no marker line any more and holds, between the start marker
\* comment and the end marker comment, exactly the string the provider
\* returned, whatever that string is.
C7_ContentVerbatimBetweenMarkers ==
    (Handled /\ HasMarkerLine)
        => /\ ~Contains(result.s, SENTINEL)
           /\ Contains(result.s,
                       startComment(CommentSyntax) \o <<NL>> \o Content
                           \o <<NL>> \o endComment(CommentSyntax))

\* where the relative @use / @import statements of s start
Statements(s) ==
    {p \in 1..Len(s) : s[p] = "@" /\ RelativeImportAt(s, p).last # 0}

\* the directory of the real file of the hook
RealDir == dirname(resolve(cwd, TheHook.filePath))

NonRelativeStatement == <<"@", "u", "s", "e", " ", SQ, "o", "t", "h", "e",
                          "r", "/", "n", "o", "n", "-", "m", "a", "t",
                          "c", "h", "i", "n", "g", SQ>>

\* C8: every @use / @import statement with a ./ or ../ path is resolved
\* against the directory of the hook's real file and the text load returns
\* holds, in its place, the virtual prefix followed by the resolved path; a
\* statement whose path is not relative is in the returned text as it was.
C8_RelativeImportsBecomeVirtualIds ==
    Handled
        => /\ \A p \in Statements(Spliced) :
                  Contains(result.s,
                           VIRTUAL_ID_PREFIX
                               \o SlashForward(resolve(
                                      RealDir,
                                      RelativeImportAt(Spliced, p).relativePath)))
           /\ Contains(Spliced, NonRelativeStatement)
                  => Contains(result.s, NonRelativeStatement)

\* the keyword of the statement that starts at p, as written or in lower case
KeywordAt(s, p, asWritten) ==
    LET kw == IF MatchesAtI(s, p, AT_USE) THEN Len(AT_USE) ELSE Len(AT_IMPORT)
    IN  IF asWritten THEN SubSeq(s, p, p + kw - 1)
        ELSE toLowerCase(SubSeq(s, p, p + kw - 1))

\* s from index i on, where every statement that resolves keeps its keyword
\* and its quote character around the identifier load puts in it, and every
\* other statement is as it was
RECURSIVE KeywordAndQuoteKept(_, _, _, _)
KeywordAndQuoteKept(s, i, filePath, asWritten) ==
    LET hits == {p \in Statements(s) : p >= i}
    IN  IF hits = {} THEN Drop(s, i - 1)
        ELSE LET p == First(hits)
                 m == RelativeImportAt(s, p)
                 absolutePath ==
                     fasterSimpleResolveAbsolutePath(m.relativePath, filePath)
             IN  SubSeq(s, i, p - 1)
                 \o (IF absolutePath.t = "string"
                     THEN KeywordAt(s, p, asWritten) \o <<" ", m.quote>>
                              \o GEN_ID(absolutePath.s, "1") \o <<m.quote>>
                     ELSE SubSeq(s, p, m.last))
                 \o KeywordAndQuoteKept(s, m.last + 1, filePath, asWritten)

\* C9: in the text load returns every rewritten statement has the keyword it
\* had (@use stays @use and @import stays @import, in whatever letter case
\* it was written) and the quote character it had, and every statement whose
\* path does not resolve is byte-identical.
C9_KeywordAndQuotePreserved ==
    Handled
        => \E asWritten \in BOOLEAN :
               result.s = KeywordAndQuoteKept(Spliced, 1, TheHook.filePath,
                                              asWritten)

----------------------------------------------------------------------------
(* Claims about the registry *)

\* the places of hooks whose filePath generates the identifier id
PlacesOf(hooks, id) ==
    {k \in 1..Len(hooks) : GEN_ID(hooks[k].filePath, "true") = id}

\* C11: in the registry built from a sequence of hooks every key is
\* GEN_ID(filePath) of the hook stored under it, no key occurs twice, every
\* hook of the sequence has its identifier among the keys, and under an
\* identifier that several hooks generate the last of them is stored.
C11_RegistryFromSequence ==
    \A hooks \in HookArrays :
        normalizedHooks = FileInjectionHooks(hooks)
            => /\ \A i \in 1..Len(normalizedHooks) :
                      /\ normalizedHooks[i].id
                             = GEN_ID(normalizedHooks[i].hook.filePath, "true")
                      /\ PlacesOf(hooks, normalizedHooks[i].id) # {}
                      /\ \A k \in PlacesOf(hooks, normalizedHooks[i].id) :
                             \/ normalizedHooks[i].hook = hooks[k]
                             \/ \E j \in PlacesOf(hooks, normalizedHooks[i].id) :
                                    j > k
               /\ \A i, j \in 1..Len(normalizedHooks) :
                      normalizedHooks[i].id = normalizedHooks[j].id => i = j
               /\ \A k \in 1..Len(hooks) :
                      HasKey(normalizedHooks, GEN_ID(hooks[k].filePath, "true"))

\* a request was answered by a registry built from a sequence in which two
\* hooks generate the same identifier
C11_Witness ==
    /\ ResolveDone
    /\ \E hooks \in HookArrays :
           /\ normalizedHooks = FileInjectionHooks(hooks)
           /\ Len(normalizedHooks) < Len(hooks)

----------------------------------------------------------------------------
(* convertBase *)

\* a call that threw: TypeError, Error or RangeError
Raised(name) == [t |-> name, s |-> <<>>, n |-> 0]

\* the value undefined
UndefinedValue == [t |-> "undefined", s |-> <<>>, n |-> 0]

\* what is passed as fromBaseSymbols / toBaseSymbols: a string, an array of
\* characters, or something that is neither
StringBase(syms) == [kind |-> "string", syms |-> syms]

ArrayBase(syms) == [kind |-> "array", syms |-> syms]

NoBase == [kind |-> "number", syms |-> <<>>]

\* normalizeBase: [...base], or the TypeError it throws
normalizeBase(base) ==
    IF base.kind = "string" THEN [t |-> "array", syms |-> base.syms]
    ELSE IF base.kind = "array" THEN [t |-> "array", syms |-> base.syms]
    ELSE [t |-> "TypeError", syms |-> <<>>]

\* a comparison of the sizes that can never succeed
hasDuplicates_greater(arr) ==
    Cardinality({arr[i] : i \in 1..Len(arr)}) > Len(arr)

\* new Set(arr).size !== arr.length
hasDuplicates(arr) ==
    Cardinality({arr[i] : i \in 1..Len(arr)}) # Len(arr)

\* fromMap.has(ch) and fromMap.get(ch)
fromMapHas(fromSymbols, ch) == \E i \in 1..Len(fromSymbols) : fromSymbols[i] = ch

fromMapGet(fromSymbols, ch) ==
    (CHOOSE i \in 1..Len(fromSymbols) : fromSymbols[i] = ch) - 1

\* for (const ch of value) num = num * BigInt(fromBase) + BigInt(fromMap.get(ch))
RECURSIVE ToBigInt(_, _, _)
ToBigInt(value, fromSymbols, n) ==
    IF value = <<>> THEN n
    ELSE ToBigInt(Tail(value), fromSymbols,
                  n * Len(fromSymbols) + fromMapGet(fromSymbols, Head(value)))

(* convertBase up to its loop: where the call stands (pc "done" when it has *)
(* thrown or returned, "loop" when it enters the while loop), with what     *)
(* result and what num.  value is a wrapped value: iterating over undefined *)
(* throws a TypeError.                                                      *)
convertBaseEnter(value, fromBaseSymbols, toBaseSymbols) ==
    LET fromSymbols == normalizeBase(fromBaseSymbols)
        toSymbols == normalizeBase(toBaseSymbols)
        Throw(name) == [pc |-> "done", result |-> Raised(name), num |-> 0]
    IN  IF fromSymbols.t # "array" THEN Throw("TypeError")
        ELSE IF toSymbols.t # "array" THEN Throw("TypeError")
        ELSE IF hasDuplicates(fromSymbols.syms) THEN Throw("Error")
        ELSE IF hasDuplicates(toSymbols.syms) THEN Throw("Error")
        ELSE IF value.t # "string" THEN Throw("TypeError")
        ELSE IF \E i \in 1..Len(value.s) :
                    ~fromMapHas(fromSymbols.syms, value.s[i])
        THEN Throw("Error")
        ELSE IF ToBigInt(value.s, fromSymbols.syms, 0) = 0
        THEN [pc |-> "done",
              result |-> IF toSymbols.syms = <<>> THEN UndefinedValue
                         ELSE Str(<<toSymbols.syms[1]>>),
              num |-> 0]
        ELSE [pc |-> "loop", result |-> Str(<<>>),
              num |-> ToBigInt(value.s, fromSymbols.syms, 0)]

----------------------------------------------------------------------------
(* Runs of convertBase: one call per behaviour, step by step through its    *)
(* loop, and the call that converts what it returned back                   *)

\* longest generated value
MaxValueLen == 3

\* the loop of the model stops adding digits here
MaxDigits == 16

BASE10_ALPHABET == <<"0", "1", "2", "3", "4", "5", "6", "7", "8", "9">>

BASE32_ALPHABET == <<"A", "B", "C", "D", "E", "F", "G", "H", "I", "J",
                     "K", "L", "M", "N", "O", "P", "Q", "R", "S", "T",
                     "U", "V", "W", "X", "Y", "Z", "2", "3", "4", "5",
                     "6", "7">>

\* the alphabets of the runs: empty, of one symbol, binary, letters, with a
\* duplicate, decimal, hexadecimal, an array, and a number
ConvertBases ==
    { StringBase(<<>>),
      StringBase(<<"a">>),
      StringBase(<<"0", "1">>),
      StringBase(<<"a", "b">>),
      StringBase(<<"a", "a", "b">>),
      StringBase(BASE10_ALPHABET),
      StringBase(<<"0", "1", "2", "3", "4", "5", "6", "7", "8", "9", "A",
                   "B", "C", "D", "E", "F">>),
      ArrayBase(<<"1", "0">>),
      NoBase }

ValueSymbols == {"0", "1", "a"}

\* every string over ValueSymbols of at most MaxValueLen characters, and the
\* values the documentation names
ConvertValues ==
    UNION {[1..n -> ValueSymbols] : n \in 0..MaxValueLen}
        \cup {<<"2", "5", "5">>, <<"F", "F">>, <<"9">>, <<"1", "0", "1", "0">>}

InitConvert ==
    /\ pc = "call"
    /\ \E value \in ConvertValues, from \in ConvertBases, to \in ConvertBases :
           call = [op |-> "convertBase", value |-> Str(value),
                   fromBaseSymbols |-> from, toBaseSymbols |-> to,
                   stage |-> 1, original |-> value]
    /\ result = Null
    /\ normalizedHooks = <<>>
    /\ files = NoFiles
    /\ provided = NoFiles
    /\ lastIndex = 0
    /\ prev = NoPrev
    /\ num = 0
    /\ generatedIds = <<>>
    /\ counter = 0

\* convertBase(value, fromBaseSymbols, toBaseSymbols) up to its loop
ConvertCall ==
    /\ pc = "call"
    /\ call.op = "convertBase"
    /\ \E e \in {convertBaseEnter(call.value, call.fromBaseSymbols,
                                  call.toBaseSymbols)} :
           /\ pc' = e.pc
           /\ result' = e.result
           /\ num' = e.num
    /\ UNCHANGED <<call, normalizedHooks, files, provided, lastIndex, prev>>
    /\ UNCHANGED <<generatedIds, counter>>

\* one iteration of while (num > 0n); a BigInt division by zero throws.  The
\* run records the first MaxDigits symbols the loop writes: an iteration past
\* them leaves result as it is.
ConvertLoop ==
    /\ pc = "loop"
    /\ num > 0
    /\ \E toSymbols \in {call.toBaseSymbols.syms} :
           IF Len(toSymbols) = 0
           THEN /\ result' = Raised("RangeError")
                /\ num' = 0
                /\ pc' = "done"
           ELSE /\ result' = IF Len(result.s) < MaxDigits
                             THEN Str(<<toSymbols[(num % Len(toSymbols)) + 1]>>
                                          \o result.s)
                             ELSE result
                /\ num' = num \div Len(toSymbols)
                /\ pc' = "loop"
    /\ UNCHANGED <<call, normalizedHooks, files, provided, lastIndex, prev>>
    /\ UNCHANGED <<generatedIds, counter>>

\* the loop ends and convertBase returns result
ConvertReturn ==
    /\ pc = "loop"
    /\ num = 0
    /\ pc' = "done"
    /\ UNCHANGED <<call, result, normalizedHooks, files, provided, lastIndex>>
    /\ UNCHANGED <<prev, num, generatedIds, counter>>

\* convertBase(convertBase(v, A, B), B, A): the outer call, up to its loop
ConvertBack ==
    /\ pc = "done"
    /\ call.op = "convertBase"
    /\ call.stage = 1
    /\ result.t \in {"string", "undefined"}
    /\ call' = [op |-> "convertBase", value |-> result,
                fromBaseSymbols |-> call.toBaseSymbols,
                toBaseSymbols |-> call.fromBaseSymbols,
                stage |-> 2, original |-> call.original]
    /\ \E e \in {convertBaseEnter(result, call.toBaseSymbols,
                                  call.fromBaseSymbols)} :
           /\ pc' = e.pc
           /\ result' = e.result
           /\ num' = e.num
    /\ UNCHANGED <<normalizedHooks, files, provided, lastIndex, prev>>
    /\ UNCHANGED <<generatedIds, counter>>

NextConvert == ConvertCall \/ ConvertLoop \/ ConvertReturn \/ ConvertBack

SpecConvert == InitConvert /\ [][NextConvert]_vars

\* convertBase is synchronous code on one thread: while a statement of the
\* call remains to be run, the engine runs it.  An iteration of the loop
\* past MaxDigits symbols that leaves num as it is changes no variable: a
\* behaviour that stutters with pc = "loop" and num > 0 is the loop running
\* for ever, not the call coming to a stop.
SpecConvertFair == SpecConvert /\ WF_vars(NextConvert)

\* a call of convertBase has returned or thrown
ConvertDone == pc = "done" /\ call.op = "convertBase"

----------------------------------------------------------------------------
(* Claims about convertBase *)

\* an alphabet with unique symbols
UniqueSymbols(base) ==
    /\ base.kind \in {"string", "array"}
    /\ \A i, j \in 1..Len(base.syms) : base.syms[i] = base.syms[j] => i = j

\* v is made only of symbols of the alphabet
MadeOf(v, base) == \A i \in 1..Len(v) : \E k \in 1..Len(base.syms) : base.syms[k] = v[i]

\* the place, counted from zero, of a symbol in an alphabet
DigitOf(base, ch) == (CHOOSE k \in 1..Len(base.syms) : base.syms[k] = ch) - 1

\* the integer s denotes as a big-endian numeral over the alphabet
RECURSIVE Denotes(_, _)
Denotes(s, base) ==
    IF s = <<>> THEN 0
    ELSE Denotes(SubSeq(s, 1, Len(s) - 1), base) * Len(base.syms)
             + DigitOf(base, s[Len(s)])

\* v without its leading occurrences of zero; the single zero when nothing
\* else is left
Canonical(v, zero) ==
    LET rest == {i \in 1..Len(v) : v[i] # zero}
    IN  IF rest = {} THEN <<zero>> ELSE Drop(v, First(rest) - 1)

\* C12: for alphabets A and B with unique symbols and a value v made only
\* of symbols of A, convertBase(convertBase(v, A, B), B, A) is v without its
\* leading zero symbols, and the single first symbol of A when v denotes
\* zero.
C12_RoundTrip ==
    (/\ ConvertDone
     /\ call.stage = 2
     /\ UniqueSymbols(call.toBaseSymbols)
     /\ UniqueSymbols(call.fromBaseSymbols)
     /\ Len(call.toBaseSymbols.syms) > 0
     /\ MadeOf(call.original, call.toBaseSymbols))
        => result = Str(Canonical(call.original, call.toBaseSymbols.syms[1]))

\* C13: what convertBase returns denotes, over the destination alphabet,
\* the integer its input denotes over the source alphabet (255 in decimal
\* gives FF, FF in hexadecimal gives 11111111); for the integer zero, the
\* empty input included, it is the single first symbol of the destination
\* alphabet, never an empty string; otherwise it does not start with that
\* first symbol.
C13_ValuePreservedCanonical ==
    (/\ ConvertDone
     /\ call.stage = 1
     /\ result.t \notin {"TypeError", "Error", "RangeError"})
        => /\ result.t = "string"
           /\ result.s # <<>>
           /\ MadeOf(result.s, call.toBaseSymbols)
           /\ Denotes(result.s, call.toBaseSymbols)
                  = Denotes(call.original, call.fromBaseSymbols)
           /\ Denotes(call.original, call.fromBaseSymbols) = 0
                  => result.s = <<call.toBaseSymbols.syms[1]>>
           /\ Denotes(call.original, call.fromBaseSymbols) # 0
                  => result.s[1] # call.toBaseSymbols.syms[1]
           /\ (/\ call.original = <<"2", "5", "5">>
               /\ call.fromBaseSymbols = StringBase(BASE10_ALPHABET)
               /\ call.toBaseSymbols = StringBase(<<"0", "1", "2", "3",
                                                    "4", "5", "6", "7",
                                                    "8", "9", "A", "B",
                                                    "C", "D", "E", "F">>))
                  => result.s = <<"F", "F">>
           /\ (/\ call.original = <<"F", "F">>
               /\ call.fromBaseSymbols = StringBase(<<"0", "1", "2", "3",
                                                      "4", "5", "6", "7",
                                                      "8", "9", "A", "B",
                                                      "C", "D", "E", "F">>)
               /\ call.toBaseSymbols = StringBase(<<"0", "1">>))
                  => result.s = <<"1", "1", "1", "1", "1", "1", "1", "1">>

BadKind(base) == base.kind \notin {"string", "array"}

\* a symbol stands at two places of the alphabet
Repeats(base) ==
    \E i, j \in 1..Len(base.syms) : i # j /\ base.syms[i] = base.syms[j]

\* C14: convertBase throws a TypeError when an alphabet is neither a string
\* nor an array; it throws when the source or the destination alphabet has
\* a duplicate symbol, whatever the other alphabet and the value are, an
\* Error when both are strings or arrays; it throws an Error when the value
\* has a character that is not in the source alphabet; and a call that
\* throws returns nothing, neither a result nor a part of one.
C14_ErrorOutcomes ==
    (ConvertDone /\ call.stage = 1)
        => /\ (BadKind(call.fromBaseSymbols) \/ BadKind(call.toBaseSymbols))
                  => result = Raised("TypeError")
           /\ (Repeats(call.fromBaseSymbols) \/ Repeats(call.toBaseSymbols))
                  => /\ result.t \in {"TypeError", "Error"}
                     /\ (/\ ~BadKind(call.fromBaseSymbols)
                         /\ ~BadKind(call.toBaseSymbols))
                            => result = Raised("Error")
           /\ (/\ UniqueSymbols(call.fromBaseSymbols)
               /\ UniqueSymbols(call.toBaseSymbols)
               /\ ~MadeOf(call.original, call.fromBaseSymbols))
                  => result = Raised("Error")
           /\ result.t \in {"TypeError", "Error", "RangeError"}
                  => result.s = <<>> /\ num = 0

\* a call whose destination alphabet alone has a duplicate symbol threw, and
\* so did a call whose value has a character the source alphabet lacks
C14_Witness ==
    /\ ConvertDone
    /\ call.stage = 1
    /\ result = Raised("Error")
    /\ call.toBaseSymbols = StringBase(<<"a", "a", "b">>)
    /\ call.fromBaseSymbols = StringBase(<<"0", "1">>)
    /\ call.original = <<"1", "0", "1", "0">>

----------------------------------------------------------------------------
(* The generators of the variable map: generateConfigContent of the hook    *)
(* config_scss, and generateAllThemeConfig of the script; of what the       *)
(* latter returns the model keeps autoVarMapSassString                      *)

\* ./src/scss/global/skins/
SKINS_DIR_ROOT ==
    <<".", "/", "s", "r", "c", "/", "s", "c", "s", "s", "/", "g", "l",
      "o", "b", "a", "l", "/", "s", "k", "i", "n", "s", "/">>

\* ./src/scss/global/_variables.default.scss
DEFAULT_VARS_FILE_PATH ==
    <<".", "/", "s", "r", "c", "/", "s", "c", "s", "s", "/", "g", "l",
      "o", "b", "a", "l", "/", "_", "v", "a", "r", "i", "a", "b", "l",
      "e", "s", ".", "d", "e", "f", "a", "u", "l", "t", ".", "s", "c",
      "s", "s">>

\* what files holds for a path that is a directory
Directory == <<"directory">>

\* fs.existsSync
existsSync(p) == p \in DOMAIN files

\* the names of the entries of a directory, as a set
EntriesOf(dir) ==
    {Drop(p, Len(dir) + 1) : p \in {f \in DOMAIN files :
                                        f # dir /\ dirname(f) = dir}}

\* fs.readdirSync(dir): the entries in an order the file system chooses
readdirSync(dir) ==
    {order \in [1..Cardinality(EntriesOf(dir)) -> EntriesOf(dir)] :
        \A i, j \in DOMAIN order : i # j => order[i] # order[j]}

\* String.prototype.endsWith
endsWith(s, p) ==
    Len(s) >= Len(p) /\ SubSeq(s, Len(s) - Len(p) + 1, Len(s)) = p

\* (f) => f.endsWith('.scss') && f.startsWith('_')
IsSkinFile(f) ==
    endsWith(f, <<".", "s", "c", "s", "s">>) /\ startsWith(f, <<"_">>)

\* .filter(...)
FilterSkins(names) == SelectSeq(names, IsSkinFile)

\* path.join(absoluteSkinsDir, file)
join(dir, file) == normalize(dir \o <<"/">> \o file)

\* \1\s*: at position j of content, for the quote at position p; the value
\* is the position of the colon, 0 if there is no match
ClosesAt(content, p, j) ==
    IF /\ j <= Len(content)
       /\ content[j] = content[p]
       /\ \E c \in (j + 1)..Len(content) :
              /\ content[c] = ":"
              /\ \A k \in (j + 1)..(c - 1) : IsSpace(content[k])
    THEN CHOOSE c \in (j + 1)..Len(content) :
             /\ content[c] = ":"
             /\ \A k \in (j + 1)..(c - 1) : IsSpace(content[k])
    ELSE 0

\* (.*?) from position p + 1 on can end before position j
LazyRunTo(content, p, j) ==
    \A k \in (p + 1)..(j - 1) : content[k] \notin {NL, "\r"}

(* /(['"])(.*?)\1\s*:/ tried at position p of content: the quote, the       *)
(* shortest run without a line terminator up to the same quote followed by *)
(* white space and a colon; last is the position of the colon               *)
KeyMatchAt(content, p) ==
    IF /\ p <= Len(content)
       /\ content[p] \in {SQ, DQ}
       /\ \E j \in (p + 1)..Len(content) :
              ClosesAt(content, p, j) > 0 /\ LazyRunTo(content, p, j)
    THEN LET j == CHOOSE j \in (p + 1)..Len(content) :
                      /\ ClosesAt(content, p, j) > 0
                      /\ LazyRunTo(content, p, j)
                      /\ \A e \in (p + 1)..(j - 1) :
                             ClosesAt(content, p, e) = 0
         IN  [found |-> TRUE, quote |-> content[p],
              name |-> SubSeq(content, p + 1, j - 1),
              last |-> ClosesAt(content, p, j)]
    ELSE [found |-> FALSE, quote |-> "", name |-> <<>>, last |-> 0]

\* the next match of content.matchAll(/(['"])(.*?)\1\s*:/g): the first one
\* at or after position i
NextKeyMatch(content, i) ==
    IF \E p \in i..Len(content) : KeyMatchAt(content, p).found
    THEN KeyMatchAt(content,
             CHOOSE p \in i..Len(content) :
                 /\ KeyMatchAt(content, p).found
                 /\ \A e \in i..(p - 1) : ~KeyMatchAt(content, e).found)
    ELSE KeyMatchAt(content, Len(content) + 1)

\* Set.prototype.add, the set kept in insertion order
SetAdd(set, x) ==
    IF \E i \in 1..Len(set) : set[i] = x THEN set ELSE Append(set, x)

\* extractVarsFromFile of generateConfigContent, for one match:
\* if (match && match) add(match[1]); the first group is the quote
extractVar_config(set, match) == SetAdd(set, <<match.quote>>)

\* extractVarsFromFile of generateAllThemeConfig, for one match:
\* if (match && match[2]) add(match[2]); the second group is the name, and
\* the empty string is falsy
extractVar_all(set, match) ==
    IF match.name = <<>> THEN set ELSE SetAdd(set, match.name)

\* Number.prototype.toString of a non-negative integer
RECURSIVE toString(_)
toString(n) ==
    IF n < 10 THEN <<Digits[n + 1]>>
    ELSE toString(n \div 10) \o <<Digits[(n % 10) + 1]>>

\* the while loop of convertBase, for an alphabet of two symbols or more
RECURSIVE convertBaseLoop(_, _, _)
convertBaseLoop(n, toSymbols, res) ==
    IF n > 0
    THEN convertBaseLoop(n \div Len(toSymbols), toSymbols,
                         <<toSymbols[(n % Len(toSymbols)) + 1]>> \o res)
    ELSE res

\* convertToBase32(value, fromBaseSymbols)
convertToBase32(value, fromBaseSymbols) ==
    LET e == convertBaseEnter(Str(value), fromBaseSymbols,
                              StringBase(BASE32_ALPHABET))
    IN  IF e.pc = "done" THEN e.result
        ELSE Str(convertBaseLoop(e.num, BASE32_ALPHABET, <<>>))

\* generatedIds.has(varName) and generatedIds.get(varName)
IdsHas(ids, varName) == \E i \in 1..Len(ids) : ids[i].name = varName

IdsGet(ids, varName) ==
    ids[CHOOSE i \in 1..Len(ids) : ids[i].name = varName].id

\* generateUniqueThemeId(varName): the identifier it returns and the memo
\* and the counter it leaves
generateUniqueThemeId(ids, n, varName) ==
    IF IdsHas(ids, varName)
    THEN [id |-> IdsGet(ids, varName), generatedIds |-> ids, counter |-> n]
    ELSE [id |-> convertToBase32(toString(n), StringBase(BASE10_ALPHABET)).s,
          generatedIds |->
              Append(ids,
                     [name |-> varName,
                      id |-> convertToBase32(toString(n),
                                 StringBase(BASE10_ALPHABET)).s]),
          counter |-> n + 1]

\* the head of the map each generator writes
MapHead(op) ==
    IF op = "generateConfigContent"
    THEN <<"$", "_", "_", "A", "U", "T", "O", "_", "V", "A", "R", "_", "M",
           "A", "P", "_", "_", ":", " ", "(">>
    ELSE <<"$", "a", "u", "t", "o", "-", "v", "a", "r", "-", "m", "a", "p",
           ":", " ", "(">>
----------------------------------------------------------------------------
(* Runs of the generators: a file system with the default-variables file    *)
(* and the skins directory present or not, and passes of either generator   *)
(* one after the other, each pass a start, one step per match, one per name *)
(* of the map and an end                                                    *)

\* a file that does not exist
Absent == <<"absent">>

\* keys in both quotes and a repeated key; a key that repeats one of the
\* first text, a colon on the next line, an empty key and a quoted value;
\* two entries with a quoted value on one line; no key at all
VarTexts ==
    { <<"$", "m", ":", " ", "(", "\"", "a", "\"", ":", " ", "1", ",", NL,
        " ", " ", SQ, "b", SQ, " ", ":", " ", "2", ",", " ", "\"", "a",
        "\"", ":", " ", "3", ")", ";">>,
      <<"\"", "b", "\"", ":", " ", "1", ";", " ", "\"", "c", "\"", NL,
        ":", " ", "2", ";", " ", "\"", "\"", ":", " ", "3", ";", " ", "x",
        ":", " ", "\"", "d", "\"", ";">>,
      <<"\"", "f", "\"", ":", " ", "\"", "g", "\"", ",", " ", "\"", "h",
        "\"", ":", " ", "2">>,
      <<"$", "x", ":", " ", "1", ";">> }

\* a file of thirty-three keys
ManyKeys ==
    <<"\"", "a", "\"", ":", "\"", "b", "\"", ":", "\"", "c", "\"", ":",
      "\"", "d", "\"", ":", "\"", "e", "\"", ":", "\"", "f", "\"", ":",
      "\"", "g", "\"", ":", "\"", "h", "\"", ":", "\"", "i", "\"", ":",
      "\"", "j", "\"", ":", "\"", "k", "\"", ":", "\"", "l", "\"", ":",
      "\"", "m", "\"", ":", "\"", "n", "\"", ":", "\"", "o", "\"", ":",
      "\"", "p", "\"", ":", "\"", "q", "\"", ":", "\"", "r", "\"", ":",
      "\"", "s", "\"", ":", "\"", "t", "\"", ":", "\"", "u", "\"", ":",
      "\"", "v", "\"", ":", "\"", "w", "\"", ":", "\"", "x", "\"", ":",
      "\"", "y", "\"", ":", "\"", "z", "\"", ":", "\"", "0", "\"", ":",
      "\"", "1", "\"", ":", "\"", "2", "\"", ":", "\"", "3", "\"", ":",
      "\"", "4", "\"", ":", "\"", "5", "\"", ":", "\"", "6", "\"", ":">>

SkinsDir == resolve(cwd, SKINS_DIR_ROOT)

DefaultVarsPath == resolve(cwd, DEFAULT_VARS_FILE_PATH)

\* the entries of the skins directory of the runs; the last two are not
\* skin files
SkinEntries ==
    <<<<"_", "a", ".", "s", "c", "s", "s">>, <<"_", "b", ".", "s", "c", "s", "s">>, <<"c", ".", "s", "c", "s", "s">>, <<"_", "d", ".", "t", "x", "t">>>>

\* the file system with these texts (or Absent) for the default-variables
\* file and for the entries of the skins directory
FileSystem(default, entries, skinsDir) ==
    LET paths ==
            {p \in {DefaultVarsPath} : default # Absent}
                \cup {p \in {SkinsDir} : skinsDir}
                \cup {join(SkinsDir, SkinEntries[i]) :
                         i \in {k \in 1..Len(SkinEntries) :
                                    skinsDir /\ entries[k] # Absent}}
    IN  [p \in paths |->
            IF p = DefaultVarsPath THEN default
            ELSE IF p = SkinsDir THEN Directory
            ELSE entries[CHOOSE k \in 1..Len(SkinEntries) :
                             p = join(SkinsDir, SkinEntries[k])]]

\* the texts each entry of the skins directory can hold
EntryTexts ==
    [k \in 1..4 |->
        IF k = 1 THEN {Absent} \cup VarTexts
        ELSE IF k = 2
        THEN {Absent, <<"\"", "b", "\"", ":", " ", "1", ";", " ", "\"",
                        "c", "\"", NL, ":", " ", "2", ";", " ", "\"",
                        "\"", ":", " ", "3", ";", " ", "x", ":", " ",
                        "\"", "d", "\"", ";">>, <<"\"", "f",
                                                            "\"", ":",
                                                            " ", "\"",
                                                            "g", "\"",
                                                            ",", " ",
                                                            "\"", "h",
                                                            "\"", ":",
                                                            " ", "2">>}
        ELSE {Absent, <<"$", "m", ":", " ", "(", "\"", "a", "\"", ":",
                        " ", "1", ",", NL, " ", " ", SQ, "b", SQ, " ",
                        ":", " ", "2", ",", " ", "\"", "a", "\"", ":",
                        " ", "3", ")", ";">>}]

\* no pass is remembered
NoPass == [op |-> "none"]

\* the pass that has just returned: its generator, the files it ran over, the
\* skin files as the directory listed them, and the map it returned
PassRecord ==
    [op |-> call.op, files |-> files, skinFiles |-> call.skinFiles,
     map |-> result.s]

(* prev is a history of the passes before the one at hand: pass is one of    *)
(* them (a later pass is remembered in its place or not), seenEarly tells   *)
(* that one of them returned early.  A pass ends with pc = "returned"; a     *)
(* change of the file system after it leaves pc = "idle".                    *)
Remembered ==
    IF pc = "returned"
    THEN {[pass |-> p, seenEarly |-> prev.seenEarly \/ call.early] :
             p \in {prev.pass, PassRecord}}
    ELSE {prev}

InitGenerate ==
    /\ pc = "idle"
    /\ call = [op |-> "none"]
    /\ result = Null
    /\ normalizedHooks = <<>>
    /\ \E default \in {Absent, ManyKeys} \cup VarTexts,
          skinsDir \in BOOLEAN,
          entries \in [1..4 -> {Absent} \cup VarTexts] :
           /\ \A k \in 1..4 : entries[k] \in EntryTexts[k]
           /\ ~skinsDir => \A k \in 1..4 : entries[k] = Absent
           /\ files = FileSystem(default, entries, skinsDir)
    /\ provided = NoFiles
    /\ lastIndex = 0
    /\ prev = [pass |-> NoPass, seenEarly |-> FALSE]
    /\ num = 0
    /\ generatedIds = <<>>
    /\ counter = 0

Generators == {"generateConfigContent", "generateAllThemeConfig"}

(* a generator is called: without the skins directory it returns the empty *)
(* map at once; otherwise it lists the skin files and starts to extract the *)
(* names, from the default-variables file first.  In call, scan holds the   *)
(* paths to extract from, file and pos where the extraction stands, names   *)
(* the set allUniqueVariableNames and at the turn of its forEach; found is  *)
(* a history of the names the pattern matched                               *)
GenerateStart ==
    /\ pc \in {"idle", "returned"}
    /\ \E op \in Generators :
           IF ~existsSync(SkinsDir)
           THEN /\ call' = [op |-> op, early |-> TRUE, skinFiles |-> <<>>,
                            scan |-> <<>>, file |-> 1, pos |-> 1,
                            found |-> <<>>, names |-> <<>>, at |-> 1]
                /\ result' = Str(MapHead(op) \o <<")", ";">>)
                /\ pc' = "returned"
           ELSE \E listing \in readdirSync(SkinsDir) :
                    \E skinFiles \in {FilterSkins(listing)} :
                        /\ call' = [op |-> op, early |-> FALSE,
                                    skinFiles |-> skinFiles,
                                    scan |-> <<DefaultVarsPath>> \o
                                        [k \in 1..Len(skinFiles) |->
                                            join(SkinsDir, skinFiles[k])],
                                    file |-> 1, pos |-> 1, found |-> <<>>,
                                    names |-> <<>>, at |-> 1]
                        /\ result' = Null
                        /\ pc' = "extract"
    /\ prev' \in Remembered
    /\ UNCHANGED <<normalizedHooks, files, provided, lastIndex, num>>
    /\ UNCHANGED <<generatedIds, counter>>

\* extractVarsFromFile: the next match of the file is added to the set; a
\* file that does not exist or has no further match is left for the next
GenerateExtract ==
    /\ pc = "extract"
    /\ call.file <= Len(call.scan)
    /\ \E filePath \in {call.scan[call.file]} :
           IF ~existsSync(filePath)
           THEN call' = [call EXCEPT !.file = @ + 1, !.pos = 1]
           ELSE \E match \in {NextKeyMatch(files[filePath], call.pos)} :
                    IF ~match.found
                    THEN call' = [call EXCEPT !.file = @ + 1, !.pos = 1]
                    ELSE call' =
                             [call EXCEPT
                                 !.pos = match.last + 1,
                                 !.found = Append(@, match.name),
                                 !.names =
                                     IF call.op = "generateConfigContent"
                                     THEN extractVar_config(@, match)
                                     ELSE extractVar_all(@, match)]
    /\ UNCHANGED <<pc, result, normalizedHooks, files, provided, lastIndex>>
    /\ UNCHANGED <<prev, num, generatedIds, counter>>

\* every file is extracted from: the map is opened
GenerateOpen ==
    /\ pc = "extract"
    /\ call.file > Len(call.scan)
    /\ result' = Str(MapHead(call.op))
    /\ pc' = "forEach"
    /\ UNCHANGED <<call, normalizedHooks, files, provided, lastIndex, prev>>
    /\ UNCHANGED <<num, generatedIds, counter>>

\* one turn of allUniqueVariableNames.forEach: the entry of the next name
\* is appended, its identifier minted by generateUniqueThemeId
GenerateEntry ==
    /\ pc = "forEach"
    /\ call.at <= Len(call.names)
    /\ \E g \in {generateUniqueThemeId(generatedIds, counter,
                                       call.names[call.at])} :
           /\ result' = Str(result.s \o <<DQ>> \o call.names[call.at]
                                \o <<DQ, ":", " ", DQ>> \o g.id
                                \o <<DQ, ",", NL>>)
           /\ generatedIds' = g.generatedIds
           /\ counter' = g.counter
    /\ call' = [call EXCEPT !.at = call.at + 1]
    /\ UNCHANGED <<pc, normalizedHooks, files, provided, lastIndex, prev>>
    /\ UNCHANGED num

\* the map is closed and the generator returns, the counter and the memo
\* left as the pass made them
GenerateEnd_noReset ==
    /\ pc = "forEach"
    /\ call.at > Len(call.names)
    /\ result' = Str(result.s \o <<")", ";">>)
    /\ pc' = "returned"
    /\ UNCHANGED <<call, normalizedHooks, files, provided, lastIndex, prev>>
    /\ UNCHANGED <<num, generatedIds, counter>>

\* the map is closed, the counter and the memo are reset, the generator
\* returns
GenerateEnd ==
    /\ pc = "forEach"
    /\ call.at > Len(call.names)
    /\ result' = Str(result.s \o <<")", ";">>)
    /\ counter' = 0
    /\ generatedIds' = <<>>
    /\ pc' = "returned"
    /\ UNCHANGED <<call, normalizedHooks, files, provided, lastIndex, prev>>
    /\ UNCHANGED num

\* between two passes the skins directory is removed, with what it holds
RemoveSkinsDir ==
    /\ pc \in {"idle", "returned"}
    /\ existsSync(SkinsDir)
    /\ files' = [p \in {f \in DOMAIN files :
                            f # SkinsDir /\ dirname(f) # SkinsDir} |->
                     files[p]]
    /\ prev' \in Remembered
    /\ pc' = "idle"
    /\ UNCHANGED <<call, result, normalizedHooks, provided, lastIndex, num>>
    /\ UNCHANGED <<generatedIds, counter>>

\* between two passes the skins directory is made, empty
MakeSkinsDir ==
    /\ pc \in {"idle", "returned"}
    /\ ~existsSync(SkinsDir)
    /\ files' = [p \in DOMAIN files \cup {SkinsDir} |->
                     IF p = SkinsDir THEN Directory ELSE files[p]]
    /\ prev' \in Remembered
    /\ pc' = "idle"
    /\ UNCHANGED <<call, result, normalizedHooks, provided, lastIndex, num>>
    /\ UNCHANGED <<generatedIds, counter>>

NextGenerate ==
    GenerateStart \/ GenerateExtract \/ GenerateOpen \/ GenerateEntry
        \/ GenerateEnd \/ RemoveSkinsDir \/ MakeSkinsDir

SpecGenerate == InitGenerate /\ [][NextGenerate]_vars

\* a generator has returned
GenerateDone == pc = "returned" /\ call.op \in Generators

----------------------------------------------------------------------------
(* Claims about the variable map *)

\* the places of found that hold a name for the first time
FirstSeen(found) ==
    {i \in 1..Len(found) : \A j \in 1..(i - 1) : found[j] # found[i]}

\* the k-th distinct name of found in first-seen order, counting from zero
KthDistinct(found, k) ==
    found[CHOOSE i \in FirstSeen(found) :
              Cardinality({j \in FirstSeen(found) : j < i}) = k]

\* the numeral of k in base 32 over the alphabet A-Z, 2-7
RECURSIVE Base32Of(_)
Base32Of(k) ==
    IF k < 32 THEN <<BASE32_ALPHABET[k + 1]>>
    ELSE Base32Of(k \div 32) \o <<BASE32_ALPHABET[(k % 32) + 1]>>

\* a turn of the forEach that writes the map
WritesEntry == pc = "forEach" /\ call'.at = call.at + 1

\* the generator closes the map and returns
ClosesMap == pc = "forEach" /\ pc' = "returned"

(* C15: the k-th entry a generator writes, counting from zero, maps the     *)
(* k-th distinct name the pattern found in the default-variables file and   *)
(* the skin files, in first-seen order, to the Base32 numeral of k, and the *)
(* map is closed when every distinct name found has its entry, so that the  *)
(* map has exactly one entry per distinct name.                             *)
C15_OneEntryPerDistinctName ==
    [][/\ WritesEntry =>
              /\ call.at <= Cardinality(FirstSeen(call.found))
              /\ result'.s =
                     result.s \o <<DQ>>
                         \o KthDistinct(call.found, call.at - 1)
                         \o <<DQ, ":", " ", DQ>> \o Base32Of(call.at - 1)
                         \o <<DQ, ",", NL>>
       /\ ClosesMap =>
              call.at - 1 = Cardinality(FirstSeen(call.found))]_vars

----------------------------------------------------------------------------
(* Further claims about the Path Resolution Policy *)

\* a specifier that starts with @ and that, as written, neither the
\* absolute-path rule nor the scheme rule matches
AliasSpecifier(s) ==
    startsWith(s, <<"@">>) /\ ~isAbsolute(s) /\ ~SCHEME_REGEX(s)

(* C16: a specifier that starts with @ and is matched neither by the        *)
(* absolute-path rule nor by the scheme rule yields "bundler alias" (-2)    *)
(* with or without an importer, and a specifier written with a leading ./   *)
(* or ../ never yields "bundler alias".                                     *)
C16_AliasRule ==
    /\ (PolicyDone /\ AliasSpecifier(call.source)) => result = Num(-2)
    /\ (PolicyDone /\ RelativeSpecifier(call.source)) => result # Num(-2)

\* the importer is present: given, and not the empty string
ImporterPresent(importer) == importer # Undefined /\ importer # <<>>

\* the four negative outcomes
NegativeOutcomes == {Num(-1), Num(-2), Num(-3), Num(-4)}

(* C17: for every specifier and every importer, present or absent, the      *)
(* policy returns either a path string or one of the four pairwise-distinct *)
(* values -1, -2, -3, -4, never both and never anything else; it returns    *)
(* -4 only when the importer is absent and -3 only when it is present.      *)
C17_TotalDistinctOutcomes ==
    PolicyDone =>
        /\ (result.t = "string") # (result \in NegativeOutcomes)
        /\ Cardinality(NegativeOutcomes) = 4
        /\ result = Num(-4) => ~ImporterPresent(call.importer)
        /\ result = Num(-3) => ImporterPresent(call.importer)

\* a call without an importer has returned "no importer context", one with
\* an importer would have returned something else
C17_Witness ==
    /\ PolicyDone
    /\ result = Num(-4)
    /\ ~ImporterPresent(call.importer)
    /\ \E importer \in Importers :
           /\ ImporterPresent(importer)
           /\ fasterSimpleResolveAbsolutePath(call.source, importer)
                  = Num(-3)

----------------------------------------------------------------------------
(* Further claims about resolveId *)

\* the virtual identifier of a hook: the prefixed identifier of its filePath
VirtualIdOf(hook) ==
    VIRTUAL_ID_PREFIX \o SlashForward(resolve(cwd, hook.filePath))

\* the hooks of the registry the importer of the call is the virtual
\* identifier of
ImporterHooks ==
    {i \in 1..Len(normalizedHooks) :
        call.importer = VirtualIdOf(normalizedHooks[i].hook)}

(* C18: when the importer is the virtual identifier of a registered hook,   *)
(* resolveId replaces it by the real filePath of that hook, and the path    *)
(* the policy resolves never contains the virtual prefix; when the importer *)
(* matches no hook it is used as given.                                     *)
C18_ImporterMappedBack ==
    ResolveDone =>
        /\ ImporterHooks # {}
               => /\ \E i \in ImporterHooks :
                         effectiveImporter(normalizedHooks, call.importer)
                             = normalizedHooks[i].hook.filePath
                  /\ Resolved.t = "string"
                         => ~Contains(Resolved.s, VIRTUAL_ID_PREFIX)
        /\ ImporterHooks = {}
               => effectiveImporter(normalizedHooks, call.importer)
                      = call.importer

\* what a tester leads to: the first tester of its chain of delegations
\* that is not a hook with an isMatch of its own
RECURSIVE Innermost(_)
Innermost(tester) ==
    IF tester.kind = "object" /\ tester.own THEN Innermost(tester.isMatch)
    ELSE tester

\* the number of hooks of the chain of a tester
RECURSIVE ChainLength(_)
ChainLength(tester) ==
    IF tester.kind # "object" THEN 0
    ELSE IF tester.own THEN 1 + ChainLength(tester.isMatch)
    ELSE 1

\* a regular expression or a predicate applied to a path, false for
\* anything else
Applied(tester, path) ==
    IF tester.kind = "RegExp"
    THEN \E lit \in tester.alts :
             \E i \in 1..Len(path) :
                 /\ i + Len(lit) - 1 <= Len(path)
                 /\ toLowerCase(SubSeq(path, i, i + Len(lit) - 1))
                        = toLowerCase(lit)
                 /\ tester.atEnd => i + Len(lit) - 1 = Len(path)
    ELSE IF tester.kind = "function" THEN path \in tester.accepts
    ELSE FALSE

(* C19: for every hook of the registry, the matcher evaluated on the       *)
(* resolved path is the regular expression or predicate at the end of the   *)
(* hook's chain of delegations, of whatever depth, applied to that path,    *)
(* and false when the chain ends in a hook with no matcher; resolveId never *)
(* returns the identifier of a hook with no matcher.                        *)
C19_MatcherEvaluation ==
    (ResolveDone /\ Resolved.t = "string")
        => \A i \in 1..Len(normalizedHooks) :
               /\ isMatch(normalizedHooks[i].hook, Resolved.s)
                      = Applied(Innermost(normalizedHooks[i].hook),
                                Resolved.s)
               /\ Innermost(normalizedHooks[i].hook).kind = "object"
                      => result # Str(GEN_ID(normalizedHooks[i].hook.filePath,
                                             "true"))

\* resolveId has returned the identifier of a hook that matched through a
\* chain of three hooks, after passing over a hook with no matcher whose own
\* file was not asked for
C19_Witness ==
    /\ ResolveDone
    /\ \E i \in 1..Len(normalizedHooks) :
           /\ ChainLength(normalizedHooks[i].hook) = 3
           /\ result = Str(GEN_ID(normalizedHooks[i].hook.filePath, "true"))
    /\ \E i \in 1..Len(normalizedHooks) :
           Innermost(normalizedHooks[i].hook).kind = "object"

----------------------------------------------------------------------------
(* Further claims about load *)

\* where the first marked region of the text of the file starts, and the
\* position after it
RegionStart == InjectionBlockStart(OriginalCode, CommentSyntax.start)

RegionEnd ==
    InjectionBlockAt(OriginalCode, RegionStart, CommentSyntax.start).next

\* the marker pattern matches again after the first region
SecondMarker ==
    \E p \in RegionEnd..Len(OriginalCode) :
        InjectionBlockAt(OriginalCode, p, CommentSyntax.start).next # 0

(* C20: the splice replaces the first marked region only: the text before   *)
(* it and the text after it, further marker lines included, are in the      *)
(* spliced text as they were; with no marker line the splice gives the text *)
(* as read and load returns it, with its imports rewritten, as a string.    *)
C20_SpliceFirstMarkerOnly ==
    Handled =>
        /\ HasMarkerLine
               => /\ Len(Spliced) >= Len(OriginalCode) - (RegionEnd - RegionStart)
                  /\ Take(Spliced, RegionStart - 1)
                         = Take(OriginalCode, RegionStart - 1)
                  /\ Drop(Spliced,
                          Len(Spliced) - (Len(OriginalCode) - RegionEnd + 1))
                         = Drop(OriginalCode, RegionEnd - 1)
        /\ ~HasMarkerLine
               => /\ Spliced = OriginalCode
                  /\ result = Str(ReplaceRelativeImports(OriginalCode, 1,
                                                         TheHook.filePath))

\* a load of a file with two marker lines has returned: the second marker
\* line is still in the spliced text
C20_Witness ==
    /\ Handled
    /\ HasMarkerLine
    /\ SecondMarker
    /\ Contains(Spliced, SENTINEL)

\* the replacement string load hands to replace for the hook just loaded
Replacement ==
    <<NL>> \o startComment(CommentSyntax) \o <<NL>> \o Content \o <<NL>>
        \o endComment(CommentSyntax) \o <<NL>>

\* the splice applied to the text the splice gave, with the same content
SplicedAgain ==
    ReplaceInjectionBlock(Spliced, CommentSyntax.start, Replacement)

\* the text of the file holds at most one marker line
AtMostOneMarker == ~HasMarkerLine \/ ~SecondMarker

\* the string the provider returned holds no marker line
ContentHoldsNoMarker ==
    InjectionBlockStart(Content, CommentSyntax.start) = 0

(* C21: for a file with at most one marker line and a content that holds no *)
(* marker line, the spliced text holds no region that matches the marker    *)
(* pattern, and the splice applied to it again with the same content        *)
(* returns it unchanged.                                                    *)
C21_SpliceIdempotent ==
    (Handled /\ AtMostOneMarker /\ ContentHoldsNoMarker)
        => /\ InjectionBlockStart(Spliced, CommentSyntax.start) = 0
           /\ SplicedAgain = Spliced

(* C22: convertBase terminates on every input: whatever the value and the   *)
(* two alphabets, a destination alphabet of one symbol included, a call     *)
(* that has begun returns a string or raises an error after finitely many   *)
(* steps.                                                                   *)
C22_ConvertBaseTerminates == (pc # "done") ~> ConvertDone

----------------------------------------------------------------------------
(* Claims about the scope of the identifier-minting memo *)

\* a generation pass can start
PassCanStart == pc \in {"idle", "returned"}

\* the pass at hand has written the entry of the first name it minted for
FirstEntryWritten ==
    pc \in {"forEach", "returned"} /\ call.op \in Generators /\ call.at > 1

\* the map opened, with the first name of the set mapped to the numeral of 0
FirstEntry ==
    MapHead(call.op) \o <<DQ>> \o call.names[1] \o <<DQ, ":", " ", DQ>>
        \o Base32Of(0) \o <<DQ, ",", NL>>

\* the pass that has returned and the remembered one are passes of one
\* generator over the same files, listed in the same order
SamePassAgain ==
    /\ GenerateDone
    /\ prev.pass.op = call.op
    /\ prev.pass.files = files
    /\ prev.pass.skinFiles = call.skinFiles

(* C23: whenever a generation pass can start, after any sequence of earlier *)
(* passes, early returns for a missing skins directory included, the        *)
(* counter is zero and the memo is empty; so the first name a pass mints an *)
(* identifier for gets the Base32 numeral of 0, and a pass of a generator   *)
(* over the same files as an earlier pass of it returns the same map.       *)
C23_MemoScopedToOnePass ==
    /\ PassCanStart => (counter = 0 /\ generatedIds = <<>>)
    /\ FirstEntryWritten => Take(result.s, Len(FirstEntry)) = FirstEntry
    /\ SamePassAgain => result.s = prev.pass.map

\* a pass that wrote two entries or more has returned the map an earlier
\* pass over the same files returned, and some earlier pass returned early
C23_Witness ==
    /\ SamePassAgain
    /\ prev.seenEarly
    /\ ~call.early
    /\ call.at > 2

----------------------------------------------------------------------------
(* The simpler engine: the constants, GEN_ID, the policy, the registry,     *)
(* resolveId and load of the earlier module.  Its isMatch, getCommentSyntax *)
(* and marker pattern are those of the canonical engine, letter for letter. *)

\* '@InjectionHooks_ts:', as written
simpler_VIRTUAL_ID_PREFIX ==
    <<"@", "I", "n", "j", "e", "c", "t", "i", "o", "n", "H", "o", "o", "k",
      "s", "_", "t", "s", ":">>

\* __VIRTUAL_ID_PREFIX + path.normalize(f).replace(/\\/g, '/')
simpler_GEN_ID(f) == simpler_VIRTUAL_ID_PREFIX \o SlashForward(normalize(f))

\* the policy of the simpler engine: a path, or null
simpler_fasterSimpleResolveAbsolutePath(source, importer) ==
    LET normalizedSource == SlashForward(normalize(source))
    IN  IF isAbsolute(normalizedSource)
        THEN Str(normalizedSource)
        ELSE IF SCHEME_REGEX(normalizedSource)
        THEN Null
        ELSE IF /\ startsWith(normalizedSource, <<"@">>)
                /\ ~startsWith(normalizedSource, <<".", "/">>)
                /\ ~startsWith(normalizedSource, <<".", ".", "/">>)
        THEN Null
        ELSE IF /\ ~startsWith(normalizedSource, <<".">>)
                /\ ~isAbsolute(normalizedSource)
                /\ Truthy(importer)
        THEN Null
        ELSE IF /\ Truthy(importer)
                /\ \/ startsWith(normalizedSource, <<".", "/">>)
                   \/ startsWith(normalizedSource, <<".", ".", "/">>)
                   \/ startsWith(normalizedSource,
                                 <<"f", "i", "l", "e", ":", "/", "/">>)
        THEN LET importerDir == dirname(importer)
                 fullPath == resolve(importerDir, normalizedSource)
             IN  Str(SlashForward(normalize(fullPath)))
        ELSE Null

\* hooks.reduce(..., {}) of the simpler FileInjectionHooks
RECURSIVE simpler_Reduce(_, _)
simpler_Reduce(hooks, acumulador) ==
    IF hooks = <<>> THEN acumulador
    ELSE simpler_Reduce(Tail(hooks),
                        SetProperty(acumulador,
                                    simpler_GEN_ID(Head(hooks).filePath),
                                    Head(hooks)))

simpler_FileInjectionHooks(hooks) == simpler_Reduce(hooks, <<>>)

\* the value the simpler resolveId returns: null, or the id of the object
\* it returns; if (!normalizedSource) takes null and the empty string
simpler_resolveId(obj, source, importer) ==
    LET normalizedSource ==
            simpler_fasterSimpleResolveAbsolutePath(
                SlashForward(normalize(source)), importer)
    IN  IF normalizedSource.t # "string" \/ normalizedSource.s = <<>>
        THEN Null
        ELSE LET k == FirstMatch(obj, 1, normalizedSource.s)
             IN  IF k = 0 THEN Null
                 ELSE Str(simpler_GEN_ID(obj[k].hook.filePath))

\* the value the simpler load returns: the text of the file with the
\* content spliced in, the imports as they are
simpler_load(obj, id) ==
    IF ~INJECTIONHOOKS_REGEX(id) THEN Null
    ELSE IF HasKey(obj, id)
    THEN LET hook == Lookup(obj, id)
             x == getCommentSyntax(hook.filePath)
         IN  Str(ReplaceInjectionBlock(
                     readFileSync(hook.filePath), x.start,
                     <<NL>> \o startComment(x) \o <<NL>> \o getContent(hook)
                         \o <<NL>> \o endComment(x) \o <<NL>>))
    ELSE Null

----------------------------------------------------------------------------
(* Runs of the two engines side by side: both are built from one array of   *)
(* hooks and asked one request; each then loads the identifier it returned. *)
(* In these runs prev holds the simpler engine: hooks is its registry,      *)
(* resolved what its resolveId returned and loaded what its load returned   *)
(* (NotYet before the call).                                                *)

NotYet == [t |-> "not called", s |-> <<>>, n |-> 0]

\* a second hook for the file of variables_scss, its path written absolute
variables_absolute ==
    Hook(resolve(cwd, MAIN_VARS_FILE_PATH), TRUE,
         RegExpTester({<<".", "c", "s", "s">>}, TRUE), "absolute")

BothHookArrays ==
    HookArrays \cup {<<variables_scss, variables_absolute>>}

\* the text of the files in these runs: a marker line, with a relative
\* import after it or without
BothTexts ==
    { DefaultCode,
      DefaultCode \o <<NL>> \o <<"@", "u", "s", "e", " ", SQ, ".", "/",
                                 "x", SQ, ";">> }

InitBoth ==
    /\ pc = "simpler"
    /\ \E hooks \in BothHookArrays :
           /\ normalizedHooks = FileInjectionHooks(hooks)
           /\ prev = [hooks |-> simpler_FileInjectionHooks(hooks),
                      resolved |-> NotYet, loaded |-> NotYet]
           /\ \E text \in BothTexts :
                  files = [p \in {resolve(cwd, hooks[i].filePath) :
                                      i \in 1..Len(hooks)} |-> text]
           /\ provided = [g \in {hooks[i].getContent : i \in 1..Len(hooks)}
                              |-> DefaultContent]
    /\ \E source \in Sources, importer \in ResolveImporters :
           call = [op |-> "resolveId", source |-> source,
                   importer |-> importer]
    /\ result = Null
    /\ lastIndex = 0
    /\ num = 0
    /\ generatedIds = <<>>
    /\ counter = 0

\* the host calls the simpler engine's resolveId(source, importer)
SimplerResolveId ==
    /\ pc = "simpler"
    /\ call.op = "resolveId"
    /\ prev' = [prev EXCEPT
                   !.resolved = simpler_resolveId(prev.hooks, call.source,
                                                  call.importer)]
    /\ pc' = "call"
    /\ UNCHANGED <<call, result, normalizedHooks, files, provided>>
    /\ UNCHANGED <<lastIndex, num, generatedIds, counter>>

\* the host loads the identifier the simpler resolveId returned
SimplerLoad ==
    /\ pc \in {"done", "loaded"}
    /\ prev.resolved.t = "string"
    /\ prev.loaded = NotYet
    /\ prev' = [prev EXCEPT
                   !.loaded = simpler_load(prev.hooks, prev.resolved.s)]
    /\ UNCHANGED <<pc, call, result, normalizedHooks, files, provided>>
    /\ UNCHANGED <<lastIndex, num, generatedIds, counter>>

NextBoth == SimplerResolveId \/ ResolveIdCall \/ SimplerLoad \/ LoadResolved

SpecBoth == InitBoth /\ [][NextBoth]_vars

----------------------------------------------------------------------------
(* Claim about the two engines *)

\* the simpler engine has returned an identifier
SimplerResolved == prev.resolved.t = "string"

\* the canonical resolveId has returned, and its load has not replaced the
\* value yet
CanonicalResolved == pc = "done" /\ call.op = "resolveId"

\* both engines have loaded the identifier they returned
BothLoaded == pc = "loaded" /\ prev.loaded # NotYet

\* the hook the simpler engine returned the identifier of
SimplerHook == Lookup(prev.hooks, prev.resolved.s)

(* C24: for a registry built from the same sequence of hooks and the same   *)
(* request, whenever the simpler resolveId returns an identifier the        *)
(* canonical resolveId returns one too, of the same hook; and whenever the  *)
(* simpler load of the identifier it issued returns text, the canonical     *)
(* load of the identifier it issued returns text too, the same but for the  *)
(* rewriting of the relative imports.                                       *)
C24_SimplerIsSubset ==
    /\ (CanonicalResolved /\ SimplerResolved)
           => /\ result.t = "string"
              /\ HasKey(normalizedHooks, result.s)
              /\ Lookup(normalizedHooks, result.s) = SimplerHook
    /\ (BothLoaded /\ prev.loaded.t = "string")
           => /\ result.t = "string"
              /\ result.s = ReplaceRelativeImports(prev.loaded.s, 1,
                                                   SimplerHook.filePath)

====
